---- MODULE Spec2Model ----
(***************************************************************************)
(* LocalStorage (src/src/LocalStorage.cpp): a fixed-capacity ring of       *)
(* length-prefixed CSV records over a byte-addressable EEPROM, with a      *)
(* 10-byte header (magic, version, cursor, count, XOR checksum, reserved)  *)
(* whose commits are throttled.  The medium is modelled byte by byte and   *)
(* the record encoding (SensorData::toCSV / fromCSV) character by          *)
(* character.  Both board variants are modelled: the AVR EEPROM (every     *)
(* write is persistent, the address register wraps) and the ESP8266        *)
(* EEPROM emulation (a RAM buffer that commit() copies to flash).          *)
(***************************************************************************)
EXTENDS Integers, Sequences, FiniteSets, TLC

(***************************************************************************)
(* Configuration, scaled down.                                             *)
(***************************************************************************)
MaxRecords == 2
RecordSize == 17
MaxErrors == 1

HEADER_SIZE == 10
RECORD_START == HEADER_SIZE
STORAGE_VERSION == 1
SENSOR_COUNT == 2
STATUS_OK == 1
HeaderCommitEvery == 2
BatchLimit == 2
\* FirebaseStorage::BATCH_SIZE (10), scaled down.
FirebaseBatchSize == 2
\* Longest text handed to fromCSV on its own.
MaxCsvLen == 5
UploadThreshold == 2
LineLimit == 3

\* The AVR EEPROM holds the header, MaxRecords slots and a spare tail shorter
\* than a slot (4096 = 32 * (125 + 3) in the shipped configuration).
AvrEepromSize == RecordSize * (MaxRecords + 1)
\* Largest size the ESP8266 variant of initialize() accepts (4096): room for
\* the header and MaxRecords + 1 slots, not for MaxRecords + 2.
EspEepromLimit == RecordSize * (MaxRecords + 2)

Boards == {"AVR", "ESP"}
Byte == 0..255

Min(a, b) == IF a < b THEN a ELSE b

(***************************************************************************)
(* Bit operations on bytes.                                                *)
(***************************************************************************)
RECURSIVE XorN(_, _, _)
XorN(a, b, n) ==
    IF n = 0 THEN 0
    ELSE (((a % 2) + (b % 2)) % 2) + 2 * XorN(a \div 2, b \div 2, n - 1)

Xor8(a, b) == CHOOSE r \in {XorN(x, y, 8) : x \in {a}, y \in {b}} : TRUE

HighByte(v) == (v \div 256) % 256
LowByte(v) == v % 256

(***************************************************************************)
(* Strings are sequences of character codes.                               *)
(***************************************************************************)
Comma == 44
Dot == 46
Minus == 45
Plus == 43
Zero == 48

IsDigit(c) == c >= 48 /\ c <= 57
IsSpace(c) == c = 32 \/ (c >= 9 /\ c <= 13)

\* String(unsigned long) and String(uint8_t): decimal digits.
RECURSIVE Digits(_)
Digits(n) == IF n < 10 THEN <<Zero + n>> ELSE Digits(n \div 10) \o <<Zero + (n % 10)>>

Abs(v) == IF v < 0 THEN 0 - v ELSE v

\* Mutation: String(float, 1).
FloatStr2OneDecimal(v) ==
    (IF v < 0 THEN <<Minus>> ELSE <<>>)
        \o Digits(Abs(v) \div 100)
        \o <<Dot, Zero + ((Abs(v) % 100) \div 10)>>

\* String(float, 2).  A value is held as an integer number of hundredths.
FloatStr2(v) ==
    (IF v < 0 THEN <<Minus>> ELSE <<>>)
        \o Digits(Abs(v) \div 100)
        \o <<Dot, Zero + ((Abs(v) % 100) \div 10), Zero + (Abs(v) % 10)>>

RECURSIVE ValuesCSV(_, _)
ValuesCSV(values, i) ==
    IF i > SENSOR_COUNT THEN <<>>
    ELSE <<Comma>> \o FloatStr2(values[i]) \o ValuesCSV(values, i + 1)

toCSV(d) == Digits(d.timestamp) \o ValuesCSV(d.values, 1) \o <<Comma>> \o Digits(d.status)

\* String::indexOf(ch, from): 0-based, -1 when absent; strchr stops at a NUL.
RECURSIVE indexOf(_, _, _)
indexOf(s, ch, from) ==
    IF from >= Len(s) THEN -1
    ELSE IF s[from + 1] = ch THEN from
    ELSE IF s[from + 1] = 0 THEN -1
    ELSE indexOf(s, ch, from + 1)

\* String::substring(left, right): characters left .. right-1 (0-based).
substring(s, left, right) ==
    LET l == Min(left, right)
        r == Min(IF left > right THEN left ELSE right, Len(s))
    IN IF l >= Len(s) THEN <<>> ELSE SubSeq(s, l + 1, r)

RECURSIVE SkipSpace(_)
SkipSpace(s) == IF s # <<>> /\ IsSpace(Head(s)) THEN SkipSpace(Tail(s)) ELSE s

\* Value of the longest prefix of decimal digits (acc carries the value so far).
RECURSIVE DigitsValue(_, _)
DigitsValue(s, acc) ==
    IF s # <<>> /\ IsDigit(Head(s)) THEN DigitsValue(Tail(s), 10 * acc + (Head(s) - Zero))
    ELSE acc

RECURSIVE DropDigits(_)
DropDigits(s) == IF s # <<>> /\ IsDigit(Head(s)) THEN DropDigits(Tail(s)) ELSE s

Signed(s) == s # <<>> /\ Head(s) \in {Minus, Plus}
Unsign(s) == IF Signed(s) THEN Tail(s) ELSE s
Negative(s) == s # <<>> /\ Head(s) = Minus

\* strtoul(s, NULL, 10): leading white space, an optional sign, then digits.
\* Every timestamp text in the model is an unsigned digit string below 2^31,
\* so the wrap of a negated value and the ULONG_MAX saturation are not reached.
strtoul(s) == DigitsValue(Unsign(SkipSpace(s)), 0)

\* String::toFloat(), in hundredths: sign, integer part, up to two decimals.
toFloat(s) ==
    LET t == SkipSpace(s)
        u == Unsign(t)
        ip == DigitsValue(u, 0)
        rest == DropDigits(u)
        frac == IF rest # <<>> /\ Head(rest) = Dot THEN Tail(rest) ELSE <<>>
        d1 == IF Len(frac) >= 1 /\ IsDigit(frac[1]) THEN frac[1] - Zero ELSE 0
        d2 == IF Len(frac) >= 2 /\ IsDigit(frac[1]) /\ IsDigit(frac[2]) THEN frac[2] - Zero ELSE 0
        m == 100 * ip + 10 * d1 + d2
    IN IF Negative(t) THEN 0 - m ELSE m

\* String::toInt() assigned to the uint8_t status.
toIntU8(s) ==
    LET t == SkipSpace(s)
        m == DigitsValue(Unsign(t), 0)
    IN IF Negative(t) THEN (256 - (m % 256)) % 256 ELSE m % 256

\* SensorData::fromCSV: the value loop, each sensor value ends at a comma.
\* nextComma is computed once per round, as the code does.
RECURSIVE fromCSVValues(_, _, _, _)
fromCSVValues(d, csv, i, pos) ==
    IF i > SENSOR_COUNT
    THEN [ok |-> TRUE, data |-> [d EXCEPT !.status = toIntU8(substring(csv, pos, Len(csv)))]]
    ELSE CHOOSE r \in
           {IF nextComma = -1 THEN [ok |-> FALSE, data |-> d]
            ELSE fromCSVValues([d EXCEPT !.values[i] = toFloat(substring(csv, pos, nextComma))],
                               csv, i + 1, nextComma + 1)
              : nextComma \in {indexOf(csv, Comma, pos)}} : TRUE

\* Mutation: a text without a comma is taken as a bare timestamp.
fromCSVBareTimestamp(d, csv) ==
    LET nextComma == indexOf(csv, Comma, 0)
    IN IF nextComma = -1
       THEN [ok |-> TRUE, data |-> [d EXCEPT !.timestamp = strtoul(csv)]]
       ELSE fromCSVValues([d EXCEPT !.timestamp = strtoul(substring(csv, 0, nextComma))],
                          csv, 1, nextComma + 1)

\* SensorData::fromCSV: parses into d, returns the success flag and d as left.
fromCSV(d, csv) ==
    CHOOSE r \in
      {IF nextComma = -1 THEN [ok |-> FALSE, data |-> d]
       ELSE fromCSVValues([d EXCEPT !.timestamp = strtoul(substring(csv, 0, nextComma))],
                          csv, 1, nextComma + 1)
         : nextComma \in {indexOf(csv, Comma, 0)}} : TRUE

\* The fields of a reading that the CSV encoding carries.
Stored(d) == <<d.timestamp, d.values, d.status>>

\* A SensorData object before anything was stored in it.
BlankData ==
    [timestamp |-> 0, values |-> [i \in 1..SENSOR_COUNT |-> 0], status |-> 0,
     relay1 |-> 0, relay2 |-> 0, kadarAir |-> 0]

Reading(t, v) ==
    [timestamp |-> t, values |-> <<v, 0>>, status |-> STATUS_OK,
     relay1 |-> 0, relay2 |-> 1, kadarAir |-> 1530]

\* The smallest timestamp of n decimal digits, plus k.
RECURSIVE TimestampOfDigits(_, _)
TimestampOfDigits(n, k) == IF n <= 1 THEN 1 + k ELSE 10 * TimestampOfDigits(n - 1, 0) + k

\* The readings offered to saveData.  A reading with an n-digit timestamp
\* encodes to n + 13 characters; the four lengths are RecordSize - 3,
\* RecordSize - 2 (the largest that fits), RecordSize - 1 and RecordSize.
SensorInputs ==
    {Reading(TimestampOfDigits(RecordSize - 16, 6), -5),
     Reading(TimestampOfDigits(RecordSize - 15, 2), 2550),
     Reading(TimestampOfDigits(RecordSize - 14, 3), -5),
     Reading(TimestampOfDigits(RecordSize - 13, 7), 2550)}


(***************************************************************************)
(* State.                                                                  *)
(***************************************************************************)
VARIABLES
    board,          \* build target, fixed for a run
    maxRecords,     \* LocalStorage::maxRecords, fixed for a run
    eeprom,         \* the bytes EEPROM.read / EEPROM.write act on
    flash,          \* ESP8266 only: the bytes that survive a restart
    currentIndex,   \* LocalStorage::currentIndex (the write cursor)
    recordCount,    \* LocalStorage::recordCount
    isInitialized,  \* DataStorage::isInitialized
    errorCount,     \* DataStorage::errorCount
    writeCounter,   \* the static writeCounter of saveData
    slotOrder,      \* history: per slot, its rank in save order (1 = earliest), 0 = never saved
    log,            \* history: the last maxRecords readings saved since the store was empty
    sinceEmpty,     \* history: successful saves since then, counted up to maxRecords + 1
    fresh,          \* history: cursor and count not reloaded from a header since then
    fault,          \* history: the address of a byte changed behind the store's back
                    \*          and not rewritten since, or -1
    unflushed,      \* history: successful saves since the header was last written
    ret,            \* the last call: operation, argument, result
    fbInitialized,  \* FirebaseStorage: DataStorage::isInitialized of that object
    fbErrorCount,   \* FirebaseStorage: DataStorage::errorCount of that object
    batchBuffer,    \* FirebaseStorage::batchBuffer
    batchCount,     \* FirebaseStorage::batchCount
    timeSynced,     \* TimeSync::_timeSynced
    timeSaved       \* history: the bytes saveTimeToEEPROM last wrote at 0..8, or <<>>

vars == <<board, maxRecords, eeprom, flash, currentIndex, recordCount, isInitialized,
          errorCount, writeCounter, slotOrder, log, sinceEmpty, fresh, fault, unflushed,
          ret, fbInitialized, fbErrorCount, batchBuffer, batchCount, timeSynced, timeSaved>>

\* The TimeSync object and what it left on the medium.
timeSync == <<timeSynced, timeSaved>>

\* The FirebaseStorage object.
firebase == <<fbInitialized, fbErrorCount, batchBuffer, batchCount>>

hist == <<slotOrder, log, sinceEmpty, fresh, fault, unflushed>>

Slots == 0..(maxRecords - 1)

(***************************************************************************)
(* The EEPROM object.                                                      *)
(***************************************************************************)
requiredSize == HEADER_SIZE + (maxRecords * RecordSize)

\* ESP8266 EEPROM.begin(size) rounds the size up to a multiple of 4.
EspLength == ((requiredSize + 3) \div 4) * 4

\* EEPROM.length()
EepromLength(b) == IF b = "AVR" THEN AvrEepromSize ELSE EspLength

Erased(n) == [a \in 0..(n - 1) |-> 255]

\* The cell an address selects: the AVR address register wraps, the ESP8266
\* object ignores addresses outside [0, size).
Phys(b, a) ==
    IF b = "AVR" THEN a % AvrEepromSize
    ELSE IF a >= 0 /\ a < EspLength THEN a ELSE -1

EepromRead(b, mem, a) == IF Phys(b, a) = -1 THEN 0 ELSE mem[Phys(b, a)]

\* EEPROM.write(addr + i, bytes[i]) for the bytes of a sequence, in order.
EepromWriteSeq(b, mem, addr, bytes) ==
    IF addr >= 0 /\ addr + Len(bytes) <= EepromLength(b)
    THEN [a \in DOMAIN mem |->
            IF a >= addr /\ a < addr + Len(bytes) THEN bytes[a - addr + 1] ELSE mem[a]]
    ELSE [a \in DOMAIN mem |->
            IF \E i \in 1..Len(bytes) : Phys(b, addr + i - 1) = a
            THEN bytes[CHOOSE i \in 1..Len(bytes) :
                          /\ Phys(b, addr + i - 1) = a
                          /\ \A j \in (i + 1)..Len(bytes) : Phys(b, addr + j - 1) # a]
            ELSE mem[a]]

\* What a restart finds on the medium.
Persisted == IF board = "AVR" THEN eeprom ELSE flash

\* EEPROM.commit() (ESP8266 only): the buffer goes to flash.
Commit(b, mem, fl) == IF b = "ESP" THEN mem ELSE fl

(***************************************************************************)
(* Header.                                                                 *)
(***************************************************************************)
\* (hi << 8) | lo held in an int: 16 bits wide on AVR, 32 on ESP8266.
IntOfBytes(b, hi, lo) ==
    LET v == 256 * hi + lo
    IN IF b = "AVR" /\ v >= 32768 THEN v - 65536 ELSE v

\* Mutation: the count bytes are left out of the fold.
ChecksumWithoutCount(cur, cnt) ==
    Xor8(Xor8(Xor8(Xor8(171, 205), STORAGE_VERSION), HighByte(cur)), LowByte(cur))

\* The uint8_t XOR fold of magic, version, cursor and count.
Checksum(cur, cnt) ==
    Xor8(Xor8(Xor8(Xor8(Xor8(Xor8(171, 205), STORAGE_VERSION),
        HighByte(cur)), LowByte(cur)), HighByte(cnt)), LowByte(cnt))

HeaderBytes(cur, cnt) ==
    <<171, 205, STORAGE_VERSION, HighByte(cur), LowByte(cur),
      HighByte(cnt), LowByte(cnt), Checksum(cur, cnt), 0, 0>>

writeHeader(b, mem, cur, cnt) == EepromWriteSeq(b, mem, 0, HeaderBytes(cur, cnt))

\* Mutation: the version byte is not compared.
readHeaderNoVersion(b, mem, cur, cnt) ==
    IF EepromRead(b, mem, 0) # 171 \/ EepromRead(b, mem, 1) # 205
    THEN [ok |-> FALSE, currentIndex |-> cur, recordCount |-> cnt]
    ELSE LET ci == IntOfBytes(b, EepromRead(b, mem, 3), EepromRead(b, mem, 4))
             rc == IntOfBytes(b, EepromRead(b, mem, 5), EepromRead(b, mem, 6))
         IN IF EepromRead(b, mem, 7) # Checksum(ci, rc)
            THEN [ok |-> FALSE, currentIndex |-> ci, recordCount |-> rc]
            ELSE [ok |-> TRUE,
                  currentIndex |-> IF ci >= maxRecords THEN 0 ELSE ci,
                  recordCount |-> IF rc > maxRecords THEN 0 ELSE rc]

\* readHeader: the flag it returns and currentIndex / recordCount as it leaves them.
readHeader(b, mem, cur, cnt) ==
    IF EepromRead(b, mem, 0) # 171 \/ EepromRead(b, mem, 1) # 205
    THEN [ok |-> FALSE, currentIndex |-> cur, recordCount |-> cnt]
    ELSE IF EepromRead(b, mem, 2) # STORAGE_VERSION
    THEN [ok |-> FALSE, currentIndex |-> cur, recordCount |-> cnt]
    ELSE LET ci == IntOfBytes(b, EepromRead(b, mem, 3), EepromRead(b, mem, 4))
             rc == IntOfBytes(b, EepromRead(b, mem, 5), EepromRead(b, mem, 6))
         IN IF EepromRead(b, mem, 7) # Checksum(ci, rc)
            THEN [ok |-> FALSE, currentIndex |-> ci, recordCount |-> rc]
            ELSE [ok |-> TRUE,
                  currentIndex |-> IF ci >= maxRecords THEN 0 ELSE ci,
                  recordCount |-> IF rc > maxRecords THEN 0 ELSE rc]

\* Mutation: consecutive slots share a byte.
calculateAddressOverlapping(index) == RECORD_START + (index * (RecordSize - 1))

\* RECORD_START + (index * recordSize)
calculateAddress(index) == RECORD_START + (index * RecordSize)

(***************************************************************************)
(* retrieveData(data, index): its result.                                  *)
(***************************************************************************)
readChars(b, mem, from, n) == [i \in 1..n |-> EepromRead(b, mem, from + i - 1)]

\* Mutation: only the low byte of the length is tested.
lengthInvalidLowByteOnly(dataLength) ==
    (dataLength % 256) = 0 \/ (dataLength % 256) > RecordSize - 2

\* dataLength == 0 || dataLength > recordSize - 2
lengthInvalid(dataLength) == dataLength = 0 \/ dataLength > RecordSize - 2

\* The result of retrieveData: the flag, data as it is left, the addresses
\* handed to EEPROM.read, and whether handleError ran.
retrieveData(b, mem, init, cnt, data, index) ==
    IF ~init THEN [ok |-> FALSE, data |-> data, reads |-> {}, err |-> 1]
    ELSE IF index >= cnt THEN [ok |-> FALSE, data |-> data, reads |-> {}, err |-> 1]
    ELSE LET address == calculateAddress(index)
             dataLength == (256 * EepromRead(b, mem, address)) + EepromRead(b, mem, address + 1)
         IN IF lengthInvalid(dataLength)
            THEN [ok |-> FALSE, data |-> data, reads |-> {address, address + 1}, err |-> 1]
            ELSE CHOOSE r \in
                   {[ok |-> p.ok, data |-> p.data,
                     reads |-> address..(address + 1 + dataLength), err |-> 0]
                      : p \in {fromCSV(data, csv) :
                                 csv \in {readChars(b, mem, address + 2, dataLength)}}} : TRUE

\* Mutation: the header is zeroed and not written again.
clearedEepromZeroOnly(b, mem) == EepromWriteSeq(b, mem, 0, [i \in 1..HEADER_SIZE |-> 0])

\* clearStorage's effect on the EEPROM object: zero the header, write it for (0, 0).
clearedEeprom(b, mem) ==
    writeHeader(b, EepromWriteSeq(b, mem, 0, [i \in 1..HEADER_SIZE |-> 0]), 0, 0)

\* The changed byte is gone once the store writes n bytes from address addr.
Rewritten(f, addr, n) == IF f >= addr /\ f < addr + n THEN -1 ELSE f

\* The record of a call.  index is the argument of retrieveData and
\* exportToCSV, the slot saveData wrote, the address CorruptByte changed, and
\* for initialize the changed address on the medium it ran on (or -1).
Ret(op, ok, index, data, reads, out) ==
    [op |-> op, ok |-> ok, index |-> index, data |-> data, reads |-> reads, out |-> out]

(***************************************************************************)
(* FirebaseStorage(host, auth, devId): batchCount(0); the buffer's content *)
(* is never read before batchCount covers it.                              *)
(***************************************************************************)
FirebaseConstructed ==
    /\ fbInitialized = FALSE
    /\ fbErrorCount = 0
    /\ batchBuffer = [i \in 0..(FirebaseBatchSize - 1) |-> BlankData]
    /\ batchCount = 0

\* TimeSync::TimeSync(); nothing of it is on the medium yet.
TimeSyncConstructed ==
    /\ timeSynced = FALSE
    /\ timeSaved = <<>>

(***************************************************************************)
(* Initial state: a constructed, uninitialized object on an erased medium. *)
(***************************************************************************)
Configured(b, m) ==
    /\ board = b
    /\ maxRecords = m
    /\ eeprom = Erased(EepromLength(b))
    /\ flash = Erased(EspLength)
    /\ currentIndex = 0
    /\ recordCount = 0
    /\ isInitialized = FALSE
    /\ errorCount = 0
    /\ writeCounter = 0
    /\ slotOrder = [s \in Slots |-> 0]
    /\ log = <<>>
    /\ sinceEmpty = 0
    /\ fresh = FALSE
    /\ fault = -1
    /\ unflushed = 0
    /\ ret = Ret("construct", TRUE, 0, BlankData, {}, <<>>)
    /\ FirebaseConstructed
    /\ TimeSyncConstructed

\* The shipped configuration on either board.
Init == \E b \in Boards : Configured(b, MaxRecords)

\* The ESP8266 firmware with room for more records than one upload batch.
InitUpload == Configured("ESP", MaxRecords + 1)

\* Configurations that do not fit: on AVR one slot more than the EEPROM
\* holds, on ESP8266 one slot more than initialize() accepts.
InitOversize ==
    \/ Configured("AVR", MaxRecords + 1)
    \/ Configured("ESP", MaxRecords + 2)

(***************************************************************************)
(* Power cycle: a new LocalStorage object, the medium as persisted.        *)
(***************************************************************************)
Restart ==
    /\ ret.op # "construct"
    /\ eeprom' = Persisted
    /\ currentIndex' = 0
    /\ recordCount' = 0
    /\ isInitialized' = FALSE
    /\ errorCount' = 0
    /\ writeCounter' = 0
    /\ fresh' = FALSE
    /\ log' = <<>>
    /\ sinceEmpty' = 0
    /\ unflushed' = 0
    /\ ret' = Ret("construct", TRUE, 0, BlankData, {}, <<>>)
    /\ timeSynced' = FALSE
    /\ UNCHANGED <<firebase, timeSaved, board, maxRecords, flash, slotOrder, fault>>

(***************************************************************************)
(* initialize(); setup() calls it once, on the newly constructed object.   *)
(***************************************************************************)
Initialize ==
    /\ ~isInitialized
    /\ IF board = "ESP" /\ requiredSize > EspEepromLimit
       THEN /\ ret' = Ret("init", FALSE, 0, BlankData, {}, <<>>)
            /\ UNCHANGED <<firebase, timeSync, board, maxRecords, eeprom, flash, currentIndex, recordCount, isInitialized,
                           errorCount, writeCounter, hist>>
       ELSE LET mem == IF board = "ESP" THEN flash ELSE eeprom   \* EEPROM.begin(requiredSize)
                h == readHeader(board, mem, currentIndex, recordCount)
                mem2 == IF h.ok THEN mem ELSE clearedEeprom(board, mem)
            IN /\ eeprom' = mem2
               /\ flash' = IF h.ok THEN flash ELSE Commit(board, mem2, flash)
               /\ currentIndex' = IF h.ok THEN h.currentIndex ELSE 0
               /\ recordCount' = IF h.ok THEN h.recordCount ELSE 0
               /\ isInitialized' = TRUE
               /\ fresh' = (recordCount' = 0 /\ currentIndex' = 0)
               /\ log' = <<>>
               /\ sinceEmpty' = 0
               /\ fault' = IF h.ok THEN fault ELSE Rewritten(fault, 0, HEADER_SIZE)
               /\ unflushed' = 0
               /\ ret' = Ret("init", TRUE, fault, BlankData, {}, <<>>)
               /\ UNCHANGED <<firebase, timeSync, board, maxRecords, errorCount, writeCounter, slotOrder>>

(***************************************************************************)
(* saveData(data)                                                          *)
(***************************************************************************)
\* Mutation: the rest of the slot is not cleared.
SlotImageNoFill(csv) == <<HighByte(Len(csv)), LowByte(Len(csv))>> \o csv

\* The bytes a successful save puts into its slot.
SlotImage(csv) ==
    <<HighByte(Len(csv)), LowByte(Len(csv))>> \o csv
        \o [i \in 1..(RecordSize - 2 - Len(csv)) |-> 0]

\* Save order after a save into slot c: c becomes the latest, the others keep
\* their relative order.
Newest(order, c) ==
    LET o == [s \in Slots |-> IF s = c THEN maxRecords + 1 ELSE order[s]]
    IN [s \in Slots |->
           IF o[s] = 0 THEN 0 ELSE Cardinality({t \in Slots : o[t] # 0 /\ o[t] <= o[s]})]

LastN(q, n) == IF Len(q) > n THEN SubSeq(q, Len(q) - n + 1, Len(q)) ELSE q

\* Mutation: the length prefix is not accounted for.
recordTooLargeIgnoringPrefix(len) == len > RecordSize

\* csvData.length() > recordSize - 2
recordTooLarge(len) == len > RecordSize - 2

\* The % of C truncates toward zero.
CMod(a, m) == IF a >= 0 THEN a % m ELSE 0 - ((0 - a) % m)

\* Mutation: the cursor does not advance.
nextIndexStuck(cur) == cur

\* currentIndex = (currentIndex + 1) % maxRecords
nextIndex(cur) == CMod(cur + 1, maxRecords)

\* Mutation: the count is incremented without the capacity test.
nextCountUnguarded(cnt) == cnt + 1

\* if (recordCount < maxRecords) recordCount++
nextCount(cnt) == IF cnt < maxRecords THEN cnt + 1 ELSE cnt

\* Mutation: only the start of the slot is tested.
mediumOverflowStartOnly(b, address) == address > EepromLength(b)

\* address + recordSize > EEPROM.length(): the int sum is converted to the
\* unsigned type of EEPROM.length(), 16 bits wide on AVR; on ESP8266 a
\* negative sum becomes a value above every length.
mediumOverflow(b, address) ==
    LET sum == address + RecordSize
        u == IF sum >= 0 THEN sum ELSE IF b = "AVR" THEN sum + 65536 ELSE 2147483647
    IN u > EepromLength(b)

\* Mutation: the wrap of the cursor does not force the header out.
headerDueCounterOnly(wc, cur) == wc >= HeaderCommitEvery

\* ++writeCounter >= 10 || currentIndex == 0, on the incremented counter and
\* the advanced cursor.
headerDue(wc, cur) == wc >= HeaderCommitEvery \/ cur = 0

SaveFails(d) ==
    \/ ~isInitialized
    \/ recordTooLarge(Len(toCSV(d)))
    \/ mediumOverflow(board, calculateAddress(currentIndex))

\* saveData(data) but for the record of the call.
SaveEffect(d) ==
    IF SaveFails(d)
    THEN /\ errorCount < MaxErrors
         /\ errorCount' = errorCount + 1
         /\ UNCHANGED <<firebase, timeSync, board, maxRecords, eeprom, flash, currentIndex, recordCount, isInitialized,
                        writeCounter, hist>>
    ELSE LET address == calculateAddress(currentIndex)
             mem1 == EepromWriteSeq(board, eeprom, address, SlotImage(toCSV(d)))
             cur == nextIndex(currentIndex)
             cnt == nextCount(recordCount)
             doHeader == headerDue(writeCounter + 1, cur)
             mem2 == IF doHeader THEN writeHeader(board, mem1, cur, cnt) ELSE mem1
         IN /\ eeprom' = mem2
            /\ flash' = Commit(board, mem2, flash)
            /\ currentIndex' = cur
            /\ recordCount' = cnt
            /\ writeCounter' = IF doHeader THEN 0 ELSE writeCounter + 1
            /\ slotOrder' = Newest(slotOrder, currentIndex)
            /\ log' = IF fresh THEN LastN(Append(log, d), maxRecords) ELSE log
            /\ sinceEmpty' = IF fresh THEN Min(sinceEmpty + 1, maxRecords + 1) ELSE sinceEmpty
            /\ fault' = LET f == Rewritten(fault, address, RecordSize)
                         IN IF doHeader THEN Rewritten(f, 0, HEADER_SIZE) ELSE f
            /\ unflushed' = IF doHeader THEN 0 ELSE unflushed + 1
            /\ UNCHANGED <<firebase, timeSync, board, maxRecords, isInitialized, errorCount, fresh>>

SaveData(d) ==
    /\ SaveEffect(d)
    /\ ret' = Ret("save", ~SaveFails(d), currentIndex, d, {}, <<>>)

(***************************************************************************)
(* Power fails inside saveData, after the slot is written and before the   *)
(* header is: AVR has the slot on the medium, the ESP8266 buffer is lost.  *)
(***************************************************************************)
PowerLossInSave(d) ==
    /\ ~SaveFails(d)
    /\ LET address == calculateAddress(currentIndex)
           mem1 == EepromWriteSeq(board, eeprom, address, SlotImage(toCSV(d)))
       IN /\ eeprom' = IF board = "ESP" THEN flash ELSE mem1
          /\ slotOrder' = IF board = "ESP" THEN slotOrder
                          ELSE Newest(slotOrder, currentIndex)
          /\ fault' = IF board = "ESP" THEN fault
                      ELSE Rewritten(fault, address, RecordSize)
    /\ currentIndex' = 0
    /\ recordCount' = 0
    /\ isInitialized' = FALSE
    /\ errorCount' = 0
    /\ writeCounter' = 0
    /\ fresh' = FALSE
    /\ log' = <<>>
    /\ sinceEmpty' = 0
    /\ unflushed' = 0
    /\ ret' = Ret("construct", TRUE, currentIndex, d, {}, <<>>)
    /\ UNCHANGED <<firebase, timeSync, board, maxRecords, flash>>

(***************************************************************************)
(* clearStorage(); every caller runs it on an initialized store.           *)
(***************************************************************************)
ClearStorage ==
    /\ isInitialized
    /\ eeprom' = clearedEeprom(board, eeprom)
    /\ flash' = Commit(board, eeprom', flash)
    /\ currentIndex' = 0
    /\ recordCount' = 0
    /\ fresh' = TRUE
    /\ log' = <<>>
    /\ sinceEmpty' = 0
    /\ fault' = Rewritten(fault, 0, HEADER_SIZE)
    /\ unflushed' = 0
    /\ ret' = Ret("clear", TRUE, 0, BlankData, {}, <<>>)
    /\ UNCHANGED <<firebase, timeSync, board, maxRecords, isInitialized, errorCount, writeCounter, slotOrder>>


(***************************************************************************)
(* isFull() and getFreeSpace()                                             *)
(***************************************************************************)
\* Mutation: full only above the capacity.
isFullAbove(cnt) == cnt > maxRecords

\* return recordCount >= maxRecords
isFull(cnt) == cnt >= maxRecords

\* return maxRecords - recordCount
getFreeSpace(cnt) == maxRecords - cnt

(***************************************************************************)
(* The retrieveData call.                                                  *)
(***************************************************************************)
RetrieveIndices == {0 - 2} \cup (0..maxRecords)

RetrieveData(index) ==
    LET r == retrieveData(board, eeprom, isInitialized, recordCount, BlankData, index)
    IN /\ errorCount + r.err <= MaxErrors
       /\ errorCount' = errorCount + r.err
       /\ ret' = Ret("retrieve", r.ok, index, r.data, r.reads, <<>>)
       /\ UNCHANGED <<firebase, timeSync, board, maxRecords, eeprom, flash, currentIndex, recordCount, isInitialized,
                      writeCounter, hist>>

(***************************************************************************)
(* exportToCSV(output, startIndex, count)                                  *)
(***************************************************************************)
\* The loop from index i: the records appended to the output and the number
\* of handleError calls; data is the one SensorData object the loop reuses.
RECURSIVE exportLoop(_, _, _, _, _, _, _)
\* Mutation: the loop ends at the first record that does not retrieve.
exportLoopAborting(b, mem, init, cnt, data, i, stop) ==
    IF i >= stop THEN [out |-> <<>>, errs |-> 0]
    ELSE LET r == retrieveData(b, mem, init, cnt, data, i)
             rest == exportLoop(b, mem, init, cnt, r.data, i + 1, stop)
         IN IF r.ok THEN [out |-> <<toCSV(r.data)>> \o rest.out, errs |-> rest.errs]
            ELSE [out |-> <<>>, errs |-> r.err]

exportLoop(b, mem, init, cnt, data, i, stop) ==
    IF i >= stop THEN [out |-> <<>>, errs |-> 0]
    ELSE LET r == retrieveData(b, mem, init, cnt, data, i)
             rest == exportLoop(b, mem, init, cnt, r.data, i + 1, stop)
         IN [out |-> (IF r.ok THEN <<toCSV(r.data)>> ELSE <<>>) \o rest.out,
             errs |-> r.err + rest.errs]

ExportStarts == {0}
ExportCounts == {-1, 1}

ExportToCSV(startIndex, count) ==
    LET n == IF count = -1 THEN recordCount ELSE count
        e == exportLoop(board, eeprom, isInitialized, recordCount, BlankData,
                        startIndex, Min(startIndex + n, recordCount))
    IN /\ errorCount + e.errs <= MaxErrors
       /\ errorCount' = errorCount + e.errs
       /\ ret' = Ret("export", TRUE, startIndex, BlankData, {},
                     [count |-> count, output |-> e.out])
       /\ UNCHANGED <<firebase, timeSync, board, maxRecords, eeprom, flash, currentIndex, recordCount, isInitialized,
                      writeCounter, hist>>

(***************************************************************************)
(* uploadAllData() of the ESP8266 firmware: one upload cycle.              *)
(***************************************************************************)
\* What the transport does with a record: patchDocument succeeds; it fails
\* with NOT_FOUND and createDocument succeeds; it fails with NOT_FOUND and
\* createDocument fails too; it fails with another error.
UploadOutcomes == {"ok", "created", "notfound", "error"}

Succeeded(o) == o \in {"ok", "created"}

\* Mutation: a failed upload is counted as well.
countUploadAlways(o, uploaded) == uploaded + 1

\* uploaded++ after patchDocument or createDocument returned true.
countUpload(o, uploaded) == IF Succeeded(o) THEN uploaded + 1 ELSE uploaded

\* Mutation: any uploaded record lets the store be cleared.
clearDueAnyUploaded(uploaded, totalRecords) == uploaded >= 1

\* uploaded == BATCH_SIZE || uploaded == totalRecords
clearDue(uploaded, totalRecords) == uploaded = BatchLimit \/ uploaded = totalRecords

\* What retrieveData(data, i) returns for the indices below n, in order; the
\* store does not change while the loop runs.
RECURSIVE retrieveEach(_)
retrieveEach(n) ==
    IF n = 0 THEN <<>>
    ELSE Append(retrieveEach(n - 1),
                retrieveData(board, eeprom, isInitialized, recordCount, BlankData, n - 1))

\* The loop from index i, with retrieved[i + 1] the result of retrieveData for
\* index i: the number uploaded, the records handed to the transport with
\* what it answered, and the number of handleError calls.
RECURSIVE uploadLoop(_, _, _, _, _, _, _)
uploadLoop(i, totalRecords, retrieved, outcome, uploaded, sent, errs) ==
    IF ~(i < totalRecords /\ i < BatchLimit)
    THEN [uploaded |-> uploaded, sent |-> sent, errs |-> errs]
    ELSE LET r == retrieved[i + 1]
         IN IF ~r.ok
            THEN uploadLoop(i + 1, totalRecords, retrieved, outcome, uploaded, sent,
                            errs + r.err)
            ELSE LET o == outcome[i]
                     sent2 == Append(sent, [index |-> i, timestamp |-> r.data.timestamp,
                                            outcome |-> o])
                 IN IF Succeeded(o) \/ o = "notfound"
                    THEN uploadLoop(i + 1, totalRecords, retrieved, outcome,
                                    countUpload(o, uploaded), sent2, errs)
                    ELSE [uploaded |-> uploaded, sent |-> sent2, errs |-> errs]

\* The indices a cycle can reach, and the transport's answers for them.
UploadIndices == 0..(Min(recordCount, BatchLimit) - 1)

UploadAnswers == [UploadIndices -> UploadOutcomes]

\* Mutation: the CLEAR line is sent whether or not the store was cleared.
afterLoopAlwaysSignals(due) == IF due THEN <<"clearStorage", "CLEAR">> ELSE <<"CLEAR">>

\* What follows the loop, in order: localStorage->clearStorage() and
\* Serial.println("CLEAR") when the clear condition holds, nothing otherwise.
afterLoop(due) == IF due THEN <<"clearStorage", "CLEAR">> ELSE <<>>

Count(events, e) == Cardinality({k \in 1..Len(events) : events[k] = e})

\* The outcome of a cycle, as the call record carries it: events are the
\* calls that follow the loop, clears counts the clearStorage calls among
\* them, signals the CLEAR lines sent to the peer.
Cycle(sent, uploaded, events) ==
    [sent |-> sent, uploaded |-> uploaded, events |-> events,
     clears |-> Count(events, "clearStorage"), signals |-> Count(events, "CLEAR")]

\* The ways a call of uploadAllData() can go: whether it passed the readiness
\* tests, the cycle, and the number of handleError calls.
uploadAllData(wifiConnected, firebaseReady, ready) ==
    IF ~wifiConnected \/ ~firebaseReady \/ ~ready
    THEN {[ok |-> FALSE, cycle |-> Cycle(<<>>, 0, <<>>), errs |-> 0]}
    ELSE LET totalRecords == recordCount
         IN UNION {
              {LET l == uploadLoop(0, totalRecords, retrieved, outcome, 0, <<>>, 0)
               IN [ok |-> TRUE,
                   cycle |-> Cycle(l.sent, l.uploaded,
                                   afterLoop(clearDue(l.uploaded, totalRecords))),
                   errs |-> l.errs] : outcome \in UploadAnswers}
              : retrieved \in {retrieveEach(Min(totalRecords, BatchLimit))}}

\* What a call that went as c does to the store: the handleError calls of
\* its retrieveData calls, and clearStorage() where the cycle calls it.
CycleEffect(c) ==
    /\ IF c.cycle.clears > 0
       THEN /\ eeprom' = clearedEeprom(board, eeprom)
            /\ flash' = Commit(board, eeprom', flash)
            /\ currentIndex' = 0
            /\ recordCount' = 0
            /\ fresh' = TRUE
            /\ log' = <<>>
            /\ sinceEmpty' = 0
            /\ fault' = Rewritten(fault, 0, HEADER_SIZE)
            /\ unflushed' = 0
            /\ UNCHANGED <<firebase, timeSync, board, maxRecords, isInitialized, writeCounter, slotOrder>>
       ELSE UNCHANGED <<firebase, timeSync, board, maxRecords, eeprom, flash, currentIndex, recordCount,
                        isInitialized, writeCounter, hist>>

UploadEffect(c) ==
    /\ errorCount + c.errs <= MaxErrors
    /\ errorCount' = errorCount + c.errs
    /\ CycleEffect(c)

UploadAllData(wifiConnected, firebaseReady, ready) ==
    /\ board = "ESP"
    /\ isInitialized
    /\ \E c \in uploadAllData(wifiConnected, firebaseReady, ready) :
          /\ UploadEffect(c)
          /\ ret' = Ret("upload", c.ok, recordCount, BlankData, {}, c.cycle)

(***************************************************************************)
(* loop() of the ESP8266 firmware.  setup() reaches loop() only after       *)
(* initialize() returned true; otherwise it stays in its error loop.        *)
(***************************************************************************)
\* Mutation: loop() runs whatever initialize() returned.
setupPassedAlways(initialized) == TRUE

\* if (!localStorage->initialize()) { while (true) ... }
setupPassed(initialized) == initialized

\* Mutation: the record count is not compared with the threshold.
uploadTriggerNoThreshold(currentCount, wifiConnected, firebaseReady, ready) ==
    wifiConnected /\ firebaseReady /\ ready

\* currentCount >= 10 && wifiConnected && firebaseReady && Firebase.ready()
uploadTrigger(currentCount, wifiConnected, firebaseReady, ready) ==
    currentCount >= UploadThreshold /\ wifiConnected /\ firebaseReady /\ ready

\* The record of one pass through the upload section of loop(): the three
\* readiness answers, the number of uploadAllData() calls, and the cycle.
LoopRecord(wifiConnected, firebaseReady, ready, calls, c) ==
    [wifiConnected |-> wifiConnected, firebaseReady |-> firebaseReady, ready |-> ready,
     calls |-> calls, sent |-> c.sent, uploaded |-> c.uploaded, events |-> c.events,
     clears |-> c.clears, signals |-> c.signals]

\* The upload section of loop(): uploadAllData() runs when the trigger holds;
\* Firebase.ready() is asked once by loop() and once more by uploadAllData().
LoopUpload(wifiConnected, firebaseReady, ready) ==
    /\ board = "ESP"
    /\ setupPassed(isInitialized)
    /\ IF uploadTrigger(recordCount, wifiConnected, firebaseReady, ready)
       THEN \E readyAtCall \in BOOLEAN :
               \E c \in uploadAllData(wifiConnected, firebaseReady, readyAtCall) :
                  /\ UploadEffect(c)
                  /\ ret' = Ret("loop", c.ok, recordCount, BlankData, {},
                                LoopRecord(wifiConnected, firebaseReady, ready, 1, c.cycle))
       ELSE /\ ret' = Ret("loop", FALSE, recordCount, BlankData, {},
                          LoopRecord(wifiConnected, firebaseReady, ready, 0,
                                     Cycle(<<>>, 0, <<>>)))
            /\ UNCHANGED <<firebase, timeSync, board, maxRecords, eeprom, flash, currentIndex, recordCount,
                           isInitialized, errorCount, writeCounter, hist>>

\* Characters of an inbound line.
Space == 32
CarriageReturn == 13
Brace == 123
Letter == 120

\* String::trim(): white space is removed at both ends.
RECURSIVE TrimRight(_)
TrimRight(s) ==
    IF s # <<>> /\ IsSpace(s[Len(s)]) THEN TrimRight(SubSeq(s, 1, Len(s) - 1)) ELSE s

trim(s) == TrimRight(SkipSpace(s))

startsWithBrace(s) == s # <<>> /\ Head(s) = Brace

\* Mutation: the length of the line is not tested.
lineTooLargeNever(len) == FALSE

\* json.length() > 300
lineTooLarge(len) == len > LineLimit

\* A line that starts with '{' and has n characters.
Document(n) == <<Brace>> \o [i \in 1..(n - 1) |-> Letter]

\* The lines Serial.readStringUntil('\n') returns.
InboundLines ==
    {<<>>, <<Space, CarriageReturn>>, <<Letter, Brace>>,
     Document(LineLimit), Document(LineLimit + 1),
     <<Space>> \o Document(LineLimit) \o <<CarriageReturn>>,
     Document(LineLimit + 1) \o <<CarriageReturn>>}

\* The record of one pass through the receive section of loop(): the line
\* as received, the answer of deserializeJson, the number of saveData calls.
LineRecord(line, parses, calls) == [line |-> line, parses |-> parses, calls |-> calls]

\* The receive section of loop() with a line available: parses is whether
\* deserializeJson accepts the line, d the SensorData built from the document
\* and the clock.
ReceiveLine(line, parses) ==
    /\ board = "ESP"
    /\ setupPassed(isInitialized)
    /\ LET json == trim(line)
       IN IF ~lineTooLarge(Len(json)) /\ Len(json) > 0 /\ startsWithBrace(json) /\ parses
          THEN \E d \in SensorInputs :
                  /\ SaveEffect(d)
                  /\ ret' = Ret("line", ~SaveFails(d), currentIndex, d, {},
                                LineRecord(line, parses, 1))
          ELSE /\ ret' = Ret("line", FALSE, currentIndex, BlankData, {},
                             LineRecord(line, parses, 0))
               /\ UNCHANGED <<firebase, timeSync, board, maxRecords, eeprom, flash, currentIndex, recordCount,
                              isInitialized, errorCount, writeCounter, hist>>

(***************************************************************************)
(* Environment: while the device is off, one byte of the header or of a    *)
(* slot's length prefix changes on the medium.                             *)
(***************************************************************************)
CorruptAddrs ==
    (0..(HEADER_SIZE - 1))
        \cup {calculateAddress(s) : s \in Slots}
        \cup {calculateAddress(s) + 1 : s \in Slots}

\* The value the byte at address a takes: one bit flips, or the low byte of a
\* length prefix drops to zero.
CorruptValues(a, old) ==
    IF a >= RECORD_START /\ (a - RECORD_START) % RecordSize = 1 /\ old # 0
    THEN {0}
    ELSE {Xor8(old, 1)}

CorruptByte(a, v) ==
    /\ fault = -1
    /\ ~isInitialized
    /\ v # Persisted[a]
    /\ eeprom' = [eeprom EXCEPT ![a] = v]
    /\ flash' = IF board = "ESP" THEN [flash EXCEPT ![a] = v] ELSE flash
    /\ fault' = a
    /\ ret' = Ret("corrupt", TRUE, a, BlankData, {}, <<>>)
    /\ UNCHANGED <<firebase, timeSync, board, maxRecords, currentIndex, recordCount, isInitialized, errorCount,
                   writeCounter, slotOrder, log, sinceEmpty, fresh, unflushed>>

(***************************************************************************)
(* Environment: while the device is off, the medium receives a header with *)
(* valid magic, version and checksum whose 16-bit cursor and count were    *)
(* not written by this configuration of the store.                         *)
(***************************************************************************)
ForeignHeaders ==
    {<<65535, 0>>, <<0, 65535>>, <<maxRecords, maxRecords + 1>>, <<1, 1>>}

StoreForeignHeader(cur, cnt) ==
    /\ ~isInitialized
    /\ [i \in 1..HEADER_SIZE |-> Persisted[i - 1]] # HeaderBytes(cur, cnt)
    /\ eeprom' = EepromWriteSeq(board, eeprom, 0, HeaderBytes(cur, cnt))
    /\ flash' = IF board = "ESP" THEN EepromWriteSeq(board, flash, 0, HeaderBytes(cur, cnt))
                ELSE flash
    /\ ret' = Ret("foreign", TRUE, 0, BlankData, {}, <<>>)
    /\ UNCHANGED <<firebase, timeSync, board, maxRecords, currentIndex, recordCount, isInitialized, errorCount,
                   writeCounter, hist>>

Next ==
    \/ Restart
    \/ Initialize
    \/ \E d \in SensorInputs : SaveData(d)
    \/ \E index \in RetrieveIndices : RetrieveData(index)
    \/ \E startIndex \in ExportStarts, count \in ExportCounts : ExportToCSV(startIndex, count)
    \/ ClearStorage

Spec == Init /\ [][Next]_vars

\* The same program on a medium that can lose one byte.
NextFaulty ==
    \/ Next
    \/ \E a \in CorruptAddrs : \E v \in CorruptValues(a, Persisted[a]) : CorruptByte(a, v)

SpecFaulty == Init /\ [][NextFaulty]_vars

\* The same program on a medium that can hold a header it did not write.
NextForeign ==
    \/ Next
    \/ \E h \in ForeignHeaders : StoreForeignHeader(h[1], h[2])

SpecForeign == Init /\ [][NextForeign]_vars

\* The same program with power failures inside saveData as well.
NextPowerLoss ==
    \/ Next
    \/ \E d \in SensorInputs : PowerLossInSave(d)

SpecPowerLoss == Init /\ [][NextPowerLoss]_vars

\* The ESP8266 firmware: readings arrive and are saved, upload cycles run.
NextUpload ==
    \/ Restart
    \/ Initialize
    \/ \E d \in SensorInputs : SaveData(d)
    \/ \E wifiConnected \in BOOLEAN, firebaseReady \in BOOLEAN, ready \in BOOLEAN :
          UploadAllData(wifiConnected, firebaseReady, ready)

SpecUpload == InitUpload /\ [][NextUpload]_vars

\* The same program configured for more slots than the medium holds.
SpecOversize == InitOversize /\ [][Next]_vars

\* The store under exports of every range, on a medium that can lose one
\* byte of a slot's length prefix or of the start of its content.
ExportRangeStarts == {0, 1}
ExportRangeCounts == {-1, 1, 2}

ExportCorruptAddrs == {calculateAddress(s) + k : s \in Slots, k \in 1..4}

NextExport ==
    \/ Restart
    \/ Initialize
    \/ \E d \in SensorInputs : SaveData(d)
    \/ \E startIndex \in ExportRangeStarts, count \in ExportRangeCounts :
          ExportToCSV(startIndex, count)
    \/ \E a \in ExportCorruptAddrs : \E v \in CorruptValues(a, Persisted[a]) : CorruptByte(a, v)

SpecExport == Init /\ [][NextExport]_vars

(***************************************************************************)
(* SensorData alone: a record is encoded with toCSV() and the text is      *)
(* decoded with fromCSV() into a SensorData object.                        *)
(***************************************************************************)
\* Timestamps of one digit, of two, and the largest the model's integers hold.
CodecTimestamps == {0, 9, 10, 2147483647}

\* Sensor values in hundredths: negative, below one, zero, with and without
\* decimals.
CodecValues == {0 - 12345, 0 - 5, 0, 7, 2550, 10000}

\* The uint8_t status.
CodecStatuses == {0, STATUS_OK, 255}

CodecRecords ==
    {[timestamp |-> t, values |-> <<v, w>>, status |-> st,
      relay1 |-> 1, relay2 |-> 0, kadarAir |-> 1530] :
        t \in CodecTimestamps, v \in CodecValues, w \in CodecValues, st \in CodecStatuses}

\* The objects fromCSV() is called on: a new one and one that held a reading.
CodecTargets == {BlankData, Reading(77, 0 - 999)}

InitCodec ==
    /\ board = "ESP"
    /\ maxRecords = MaxRecords
    /\ eeprom = Erased(EepromLength("ESP"))
    /\ flash = Erased(EspLength)
    /\ currentIndex = 0
    /\ recordCount = 0
    /\ isInitialized = FALSE
    /\ errorCount = 0
    /\ writeCounter = 0
    /\ slotOrder = [s \in Slots |-> 0]
    /\ log = <<>>
    /\ sinceEmpty = 0
    /\ fresh = FALSE
    /\ fault = -1
    /\ unflushed = 0
    /\ \E r \in CodecRecords : ret = Ret("record", TRUE, 0, r, {}, <<>>)
    /\ FirebaseConstructed
    /\ TimeSyncConstructed

\* csv = R.toCSV()
ToCSV ==
    /\ ret.op = "record"
    /\ ret' = Ret("toCSV", TRUE, 0, ret.data, {}, toCSV(ret.data))
    /\ UNCHANGED <<firebase, timeSync, board, maxRecords, eeprom, flash, currentIndex, recordCount, isInitialized,
                   errorCount, writeCounter, hist>>

\* target.fromCSV(csv)
FromCSV(target) ==
    /\ ret.op = "toCSV"
    /\ \E p \in {fromCSV(target, ret.out)} :
          ret' = Ret("fromCSV", p.ok, 0, p.data, {}, [record |-> ret.data, csv |-> ret.out])
    /\ UNCHANGED <<firebase, timeSync, board, maxRecords, eeprom, flash, currentIndex, recordCount, isInitialized,
                   errorCount, writeCounter, hist>>

NextCodec ==
    \/ ToCSV
    \/ \E target \in CodecTargets : FromCSV(target)

SpecCodec == InitCodec /\ [][NextCodec]_vars

(***************************************************************************)
(* SensorData::fromCSV on arbitrary text.                                  *)
(***************************************************************************)
\* The characters of the texts: a comma, a digit, a sign, a dot, a blank, a
\* letter and the NUL character.
CsvAlphabet == {Comma, Zero + 7, Minus, Dot, 32, 120, 0}

RECURSIVE TextsOfLength(_)
TextsOfLength(n) ==
    IF n = 0 THEN {<<>>}
    ELSE {Append(t, c) : t \in TextsOfLength(n - 1), c \in CsvAlphabet}

CsvTexts(len) == UNION {TextsOfLength(n) : n \in 0..len}

InitParse ==
    /\ board = "ESP"
    /\ maxRecords = MaxRecords
    /\ eeprom = Erased(EepromLength("ESP"))
    /\ flash = Erased(EspLength)
    /\ currentIndex = 0
    /\ recordCount = 0
    /\ isInitialized = FALSE
    /\ errorCount = 0
    /\ writeCounter = 0
    /\ slotOrder = [s \in Slots |-> 0]
    /\ log = <<>>
    /\ sinceEmpty = 0
    /\ fresh = FALSE
    /\ fault = -1
    /\ unflushed = 0
    /\ \E csv \in CsvTexts(MaxCsvLen) : ret = Ret("text", TRUE, 0, BlankData, {}, csv)
    /\ FirebaseConstructed
    /\ TimeSyncConstructed

\* target.fromCSV(csv)
Parse(target) ==
    /\ ret.op = "text"
    /\ \E p \in {fromCSV(target, ret.out)} :
          ret' = Ret("parse", p.ok, 0, p.data, {}, ret.out)
    /\ UNCHANGED <<firebase, timeSync, board, maxRecords, eeprom, flash, currentIndex, recordCount, isInitialized,
                   errorCount, writeCounter, hist>>

NextParse == \E target \in CodecTargets : Parse(target)

SpecParse == InitParse /\ [][NextParse]_vars

(***************************************************************************)
(* TimeSync on the ESP8266: the time reference kept in the EEPROM object   *)
(* that LocalStorage uses.  EEPROM.begin(512) covers the header and the    *)
(* first 15 slots of the shipped store; the slots of the model are among   *)
(* them, so begin() reloads the whole modelled buffer from flash.          *)
(***************************************************************************)
EEPROM_TIME_ADDR == 0
EEPROM_MILLIS_ADDR == 4
EEPROM_VALID_FLAG_ADDR == 8

\* The sanity bound of a Unix time, 2021-01-01.
MinUnixTime == 1609459200

\* EEPROM.put of an unsigned long: four bytes, lowest first.
LongBytes(v) ==
    <<v % 256, (v \div 256) % 256, (v \div 65536) % 256, (v \div 16777216) % 256>>

\* The unsigned long at addr compared with a bound, by 16-bit halves.
LongBelow(mem, addr, bound) ==
    LET hi == 256 * mem[addr + 3] + mem[addr + 2]
        lo == 256 * mem[addr + 1] + mem[addr]
    IN hi < bound \div 65536 \/ (hi = bound \div 65536 /\ lo < bound % 65536)

\* The bytes saveTimeToEEPROM() writes from address 0: time, millis, flag.
TimeImage(bootUnixTime, bootMillis) ==
    LongBytes(bootUnixTime) \o LongBytes(bootMillis) \o <<171>>

\* saveTimeToEEPROM(): the buffer after the three writes.
saveTimeToEEPROM(mem, bootUnixTime, bootMillis) ==
    EepromWriteSeq("ESP", mem, EEPROM_TIME_ADDR, TimeImage(bootUnixTime, bootMillis))

\* loadTimeFromEEPROM(); stale is the test elapsedMillis > 7 days.
loadTimeFromEEPROM(mem, stale) ==
    /\ EepromRead("ESP", mem, EEPROM_VALID_FLAG_ADDR) = 171
    /\ ~LongBelow(mem, EEPROM_TIME_ADDR, MinUnixTime)
    /\ ~stale

\* syncTimeFromAPI() on buffer mem: tooSoon is the 10-second test, httpOk a
\* 200 answer that parses, unixTime its field, now is millis().
syncTimeFromAPI(mem, tooSoon, httpOk, unixTime, now) ==
    IF ~tooSoon /\ httpOk /\ unixTime > MinUnixTime
    THEN [ok |-> TRUE, mem |-> saveTimeToEEPROM(mem, unixTime, now),
          saved |-> TimeImage(unixTime, now)]
    ELSE [ok |-> FALSE, mem |-> mem, saved |-> <<>>]

ApiTimes == {MinUnixTime, 1700000000}
MillisValues == {5000, 70000}

\* What a TimeSync call did: r is the result of syncTimeFromAPI, or of a
\* load that made it unnecessary.
TimeSyncEffect(op, r) ==
    /\ eeprom' = r.mem
    /\ flash' = IF r.saved # <<>> THEN r.mem ELSE flash        \* EEPROM.commit()
    /\ timeSynced' = (timeSynced \/ r.ok)
    /\ timeSaved' = IF r.saved # <<>> THEN r.saved ELSE timeSaved
    /\ ret' = Ret(op, r.ok, 0, BlankData, {}, r.saved)
    /\ UNCHANGED <<firebase, board, maxRecords, currentIndex, recordCount, isInitialized,
                   errorCount, writeCounter, hist>>

\* timeSync.begin(), called by setup() after the store was initialized.
TimeSyncBegin(stale, tooSoon, httpOk, unixTime, now) ==
    /\ board = "ESP"
    /\ ret.op = "init" /\ setupPassed(isInitialized)
    /\ IF loadTimeFromEEPROM(flash, stale)
       THEN TimeSyncEffect("timeBegin", [ok |-> TRUE, mem |-> flash, saved |-> <<>>])
       ELSE \E r \in {syncTimeFromAPI(flash, tooSoon, httpOk, unixTime, now)} :
               TimeSyncEffect("timeBegin", r)

\* timeSync.syncTimeFromAPI(), called by loop() directly and through update().
SyncTimeFromAPI(tooSoon, httpOk, unixTime, now) ==
    /\ board = "ESP"
    /\ setupPassed(isInitialized)
    /\ \E r \in {syncTimeFromAPI(eeprom, tooSoon, httpOk, unixTime, now)} :
          TimeSyncEffect("timeSync", r)

NextTimeSync ==
    \/ Restart
    \/ Initialize
    \/ \E d \in SensorInputs : SaveData(d)
    \/ ClearStorage
    \/ \E stale \in BOOLEAN, tooSoon \in BOOLEAN, httpOk \in BOOLEAN :
          \E unixTime \in ApiTimes, now \in MillisValues :
             TimeSyncBegin(stale, tooSoon, httpOk, unixTime, now)
    \/ \E tooSoon \in BOOLEAN, httpOk \in BOOLEAN :
          \E unixTime \in ApiTimes, now \in MillisValues :
             SyncTimeFromAPI(tooSoon, httpOk, unixTime, now)

SpecTimeSync == Configured("ESP", MaxRecords) /\ [][NextTimeSync]_vars

(***************************************************************************)
(* FirebaseStorage (src/lib): the batch buffer in front of the transport.  *)
(***************************************************************************)
\* Mutation: the batch is dropped when the send fails, too.
syncBatchDropsOnFailure(buffer, cnt, connected, sendOk) ==
    IF cnt = 0 THEN [ok |-> TRUE, batchCount |-> cnt, errs |-> 0, sent |-> <<>>]
    ELSE IF ~connected THEN [ok |-> FALSE, batchCount |-> cnt, errs |-> 1, sent |-> <<>>]
    ELSE IF sendOk
         THEN [ok |-> TRUE, batchCount |-> 0, errs |-> 0,
               sent |-> [i \in 1..cnt |-> Stored(buffer[i - 1])]]
         ELSE [ok |-> FALSE, batchCount |-> 0, errs |-> 1, sent |-> <<>>]

\* syncBatch() on a buffer holding cnt records; connected is the result of
\* checkConnection(), sendOk of sendToFirebase(); sent is what was transmitted.
syncBatch(buffer, cnt, connected, sendOk) ==
    IF cnt = 0 THEN [ok |-> TRUE, batchCount |-> cnt, errs |-> 0, sent |-> <<>>]
    ELSE IF ~connected THEN [ok |-> FALSE, batchCount |-> cnt, errs |-> 1, sent |-> <<>>]
    ELSE IF sendOk
         THEN [ok |-> TRUE, batchCount |-> 0, errs |-> 0,
               sent |-> [i \in 1..cnt |-> Stored(buffer[i - 1])]]
         ELSE [ok |-> FALSE, batchCount |-> cnt, errs |-> 1, sent |-> <<>>]

\* The record of a FirebaseStorage call: the inputs and what was transmitted.
BatchRecord(syncDue, connected, sendOk, sent) ==
    [syncDue |-> syncDue, connected |-> connected, sendOk |-> sendOk, sent |-> sent]

\* FirebaseStorage::initialize(); the three AT exchanges succeed or not.
FirebaseInitialize(reset, mode, wifi) ==
    /\ IF reset /\ mode /\ wifi
       THEN fbInitialized' = TRUE /\ fbErrorCount' = fbErrorCount
       ELSE /\ fbErrorCount < MaxErrors
            /\ fbErrorCount' = fbErrorCount + 1
            /\ fbInitialized' = fbInitialized
    /\ ret' = Ret("fbInit", reset /\ mode /\ wifi, 0, BlankData, {}, <<>>)
    /\ UNCHANGED <<batchBuffer, batchCount, timeSync, board, maxRecords, eeprom, flash, currentIndex,
                   recordCount, isInitialized, errorCount, writeCounter, hist>>

\* FirebaseStorage::saveData(data); syncDue is the test
\* currentTime - lastSyncTime >= FIREBASE_SYNC_INTERVAL.
FirebaseSaveData(data, syncDue, connected, sendOk) ==
    /\ IF ~fbInitialized
       THEN /\ fbErrorCount < MaxErrors
            /\ fbErrorCount' = fbErrorCount + 1
            /\ ret' = Ret("fbSave", FALSE, batchCount, data, {},
                          BatchRecord(syncDue, connected, sendOk, <<>>))
            /\ UNCHANGED <<batchBuffer, batchCount>>
       ELSE \E buffer \in {IF batchCount < FirebaseBatchSize
                            THEN [batchBuffer EXCEPT ![batchCount] = data]
                            ELSE batchBuffer},
               cnt \in {IF batchCount < FirebaseBatchSize THEN batchCount + 1 ELSE batchCount} :
               IF syncDue \/ cnt >= FirebaseBatchSize
               THEN \E r \in {syncBatch(buffer, cnt, connected, sendOk)} :
                       /\ fbErrorCount + r.errs <= MaxErrors
                       /\ fbErrorCount' = fbErrorCount + r.errs
                       /\ batchBuffer' = buffer
                       /\ batchCount' = r.batchCount
                       /\ ret' = Ret("fbSave", r.ok, batchCount, data, {},
                                     BatchRecord(syncDue, connected, sendOk, r.sent))
               ELSE /\ batchBuffer' = buffer
                    /\ batchCount' = cnt
                    /\ fbErrorCount' = fbErrorCount
                    /\ ret' = Ret("fbSave", TRUE, batchCount, data, {},
                                  BatchRecord(syncDue, connected, sendOk, <<>>))
    /\ UNCHANGED <<fbInitialized, timeSync, board, maxRecords, eeprom, flash, currentIndex, recordCount,
                   isInitialized, errorCount, writeCounter, hist>>

\* FirebaseStorage::syncBatch() called directly.
FirebaseSyncBatch(connected, sendOk) ==
    /\ \E r \in {syncBatch(batchBuffer, batchCount, connected, sendOk)} :
          /\ fbErrorCount + r.errs <= MaxErrors
          /\ fbErrorCount' = fbErrorCount + r.errs
          /\ batchCount' = r.batchCount
          /\ ret' = Ret("fbSync", r.ok, batchCount, BlankData, {},
                        BatchRecord(FALSE, connected, sendOk, r.sent))
    /\ UNCHANGED <<fbInitialized, batchBuffer, timeSync, board, maxRecords, eeprom, flash, currentIndex,
                   recordCount, isInitialized, errorCount, writeCounter, hist>>

\* FirebaseStorage::clearStorage()
FirebaseClearStorage ==
    /\ batchCount' = 0
    /\ ret' = Ret("fbClear", TRUE, batchCount, BlankData, {}, <<>>)
    /\ UNCHANGED <<fbInitialized, fbErrorCount, batchBuffer, timeSync, board, maxRecords, eeprom, flash,
                   currentIndex, recordCount, isInitialized, errorCount, writeCounter, hist>>

NextFirebase ==
    \/ \E reset \in BOOLEAN, mode \in BOOLEAN, wifi \in BOOLEAN :
          FirebaseInitialize(reset, mode, wifi)
    \/ \E data \in SensorInputs, syncDue \in BOOLEAN, connected \in BOOLEAN, sendOk \in BOOLEAN :
          FirebaseSaveData(data, syncDue, connected, sendOk)
    \/ \E connected \in BOOLEAN, sendOk \in BOOLEAN : FirebaseSyncBatch(connected, sendOk)
    \/ FirebaseClearStorage

SpecFirebase == Configured("AVR", MaxRecords) /\ [][NextFirebase]_vars

\* The ESP8266 firmware as setup() and loop() run it, configured to fit the
\* medium or for one slot more than initialize() accepts.
InitLoop == Configured("ESP", MaxRecords) \/ Configured("ESP", MaxRecords + 2)

NextLoop ==
    \/ Restart
    \/ Initialize
    \/ \E line \in InboundLines, parses \in BOOLEAN : ReceiveLine(line, parses)
    \/ \E wifiConnected \in BOOLEAN, firebaseReady \in BOOLEAN, ready \in BOOLEAN :
          LoopUpload(wifiConnected, firebaseReady, ready)

SpecLoop == InitLoop /\ [][NextLoop]_vars

(***************************************************************************)
(* writeHeader() followed by readHeader(), for stores of up to 32767 slots *)
(* (the largest int of the AVR build).  Only the header region of the      *)
(* medium is kept, and no slot is written.                                 *)
(***************************************************************************)
HeaderCapacities == {MaxRecords, 300, 32767}

HeaderValues == {0, 1, MaxRecords, 255, 256, 299, 300, 32766, 32767}

InitHeader ==
    /\ board \in Boards
    /\ maxRecords \in HeaderCapacities
    /\ currentIndex \in {v \in HeaderValues : v < maxRecords}
    /\ recordCount \in {v \in HeaderValues : v <= maxRecords}
    /\ eeprom = Erased(HEADER_SIZE)
    /\ flash = Erased(HEADER_SIZE)
    /\ isInitialized = FALSE
    /\ errorCount = 0
    /\ writeCounter = 0
    /\ slotOrder = <<>>
    /\ log = <<>>
    /\ sinceEmpty = 0
    /\ fresh = FALSE
    /\ fault = -1
    /\ unflushed = 0
    /\ ret = Ret("header", TRUE, 0, BlankData, {}, <<>>)
    /\ FirebaseConstructed
    /\ TimeSyncConstructed

\* writeHeader() on an object with the cursor and count drawn.
WriteHeader ==
    /\ ret.op = "header"
    /\ eeprom' = writeHeader(board, eeprom, currentIndex, recordCount)
    /\ ret' = Ret("writeHeader", TRUE, 0, BlankData, {}, <<currentIndex, recordCount>>)
    /\ UNCHANGED <<firebase, timeSync, board, maxRecords, flash, currentIndex, recordCount,
                   isInitialized, errorCount, writeCounter, hist>>

\* readHeader() right after it, on an object whose cursor and count are 0
\* as the constructor leaves them.
ReadHeader ==
    /\ ret.op = "writeHeader"
    /\ \E h \in {readHeader(board, eeprom, 0, 0)} :
          /\ currentIndex' = h.currentIndex
          /\ recordCount' = h.recordCount
          /\ ret' = Ret("readHeader", h.ok, 0, BlankData, {}, ret.out)
    /\ UNCHANGED <<firebase, timeSync, board, maxRecords, eeprom, flash, isInitialized,
                   errorCount, writeCounter, hist>>

NextHeader ==
    \/ WriteHeader
    \/ ReadHeader

SpecHeader == InitHeader /\ [][NextHeader]_vars

(***************************************************************************)
(* The legacy store (src/lib/LocalStorage.cpp), an AVR build: a 1-byte      *)
(* length prefix, a 7-byte header without version, a header write on every *)
(* save.                                                                   *)
(***************************************************************************)
\* 0xAB ^ 0xCD ^ the four cursor and count bytes, in a uint8_t.
legacyChecksum(cur, cnt) ==
    Xor8(Xor8(Xor8(Xor8(Xor8(171, 205), HighByte(cur)), LowByte(cur)), HighByte(cnt)),
         LowByte(cnt))

legacyWriteHeader(mem, cur, cnt) ==
    EepromWriteSeq("AVR", mem, 0,
                   <<171, 205, HighByte(cur), LowByte(cur), HighByte(cnt), LowByte(cnt),
                     legacyChecksum(cur, cnt)>>)

\* readHeader: the flag, and currentIndex / recordCount as it leaves them.
legacyReadHeader(mem, cur, cnt) ==
    IF EepromRead("AVR", mem, 0) # 171 \/ EepromRead("AVR", mem, 1) # 205
    THEN [ok |-> FALSE, currentIndex |-> cur, recordCount |-> cnt]
    ELSE LET ci == IntOfBytes("AVR", EepromRead("AVR", mem, 2), EepromRead("AVR", mem, 3))
             rc == IntOfBytes("AVR", EepromRead("AVR", mem, 4), EepromRead("AVR", mem, 5))
         IN [ok |-> EepromRead("AVR", mem, 6) = legacyChecksum(ci, rc),
             currentIndex |-> ci, recordCount |-> rc]

legacyClearedEeprom(mem) ==
    legacyWriteHeader(EepromWriteSeq("AVR", mem, 0, [i \in 1..HEADER_SIZE |-> 0]), 0, 0)

\* csvData.length() > recordSize
legacyTooLarge(len) == len > RecordSize

\* The bytes a save writes from the slot's address: the length in one byte,
\* the text, zeros up to recordSize.
legacySlotImage(csv) ==
    <<Len(csv) % 256>> \o csv \o [i \in 1..(RecordSize - 1 - Len(csv)) |-> 0]

\* if (isFull()) currentIndex = currentIndex % maxRecords
legacyCursor(cur, cnt) == IF isFull(cnt) THEN cur % maxRecords ELSE cur

LegacyInitialize ==
    /\ board = "AVR"
    /\ ~isInitialized
    /\ \E h \in {legacyReadHeader(eeprom, currentIndex, recordCount)} :
          /\ eeprom' = IF h.ok THEN eeprom ELSE legacyClearedEeprom(eeprom)
          /\ currentIndex' = IF h.ok THEN h.currentIndex ELSE 0
          /\ recordCount' = IF h.ok THEN h.recordCount ELSE 0
    /\ isInitialized' = TRUE
    /\ ret' = Ret("legacyInit", TRUE, 0, BlankData, {}, <<>>)
    /\ UNCHANGED <<firebase, timeSync, board, maxRecords, flash, errorCount, writeCounter, hist>>

LegacySaveData(d) ==
    /\ board = "AVR"
    /\ IF ~isInitialized
       THEN /\ errorCount < MaxErrors
            /\ errorCount' = errorCount + 1
            /\ ret' = Ret("legacySave", FALSE, currentIndex, d, {}, <<>>)
            /\ UNCHANGED <<eeprom, currentIndex, recordCount>>
       ELSE \E cur \in {legacyCursor(currentIndex, recordCount)}, csv \in {toCSV(d)} :
               IF legacyTooLarge(Len(csv))
               THEN /\ errorCount < MaxErrors
                    /\ errorCount' = errorCount + 1
                    /\ currentIndex' = cur
                    /\ ret' = Ret("legacySave", FALSE, cur, d, {}, <<>>)
                    /\ UNCHANGED <<eeprom, recordCount>>
               ELSE /\ currentIndex' = cur + 1
                    /\ recordCount' = nextCount(recordCount)
                    /\ eeprom' = legacyWriteHeader(
                                     EepromWriteSeq("AVR", eeprom, calculateAddress(cur),
                                                    legacySlotImage(csv)),
                                     currentIndex', recordCount')
                    /\ ret' = Ret("legacySave", TRUE, cur, d, {}, <<>>)
                    /\ UNCHANGED errorCount
    /\ UNCHANGED <<firebase, timeSync, board, maxRecords, flash, isInitialized, writeCounter, hist>>

LegacyClearStorage ==
    /\ board = "AVR"
    /\ isInitialized
    /\ eeprom' = legacyClearedEeprom(eeprom)
    /\ currentIndex' = 0
    /\ recordCount' = 0
    /\ ret' = Ret("legacyClear", TRUE, 0, BlankData, {}, <<>>)
    /\ UNCHANGED <<firebase, timeSync, board, maxRecords, flash, isInitialized, errorCount,
                   writeCounter, hist>>

\* A reading whose text has RecordSize + 1 characters.
LongReading == Reading(TimestampOfDigits(RecordSize - 12, 4), 2550)

NextLegacy ==
    \/ Restart
    \/ LegacyInitialize
    \/ \E d \in SensorInputs \cup {LongReading} : LegacySaveData(d)
    \/ LegacyClearStorage

SpecLegacy == Configured("AVR", MaxRecords) /\ [][NextLegacy]_vars

(***************************************************************************)
(* uploadAllData() with the documents it hands to the transport on record. *)
(* The loop declares SensorData data without an initializer, and fromCSV   *)
(* assigns timestamp, values and status only: relay1, relay2 and kadarAir  *)
(* keep what the stack held.                                               *)
(***************************************************************************)
\* json.set("fields/...", ...) for the seven fields taken from data.
documentOf(data) ==
    [temp |-> data.values[1], weight |-> data.values[2], ka |-> data.kadarAir,
     relay1 |-> data.relay1, relay2 |-> data.relay2, status |-> data.status,
     timestamp |-> data.timestamp]

\* What the uninitialized local can hold in the fields fromCSV leaves alone.
StackData ==
    {BlankData, [BlankData EXCEPT !.relay1 = 255, !.relay2 = 1, !.kadarAir = 1530]}

\* The documents of a cycle, one per record handed to the transport; junk[i]
\* is the local of round i before retrieveData.
Documents(sent, junk) ==
    [k \in 1..Len(sent) |->
        documentOf(retrieveData(board, eeprom, isInitialized, recordCount,
                                junk[sent[k].index], sent[k].index).data)]

UploadDocuments(wifiConnected, firebaseReady, ready) ==
    /\ board = "ESP"
    /\ isInitialized
    /\ \E c \in uploadAllData(wifiConnected, firebaseReady, ready) :
          \E junk \in [0..(BatchLimit - 1) -> StackData] :
             /\ UploadEffect(c)
             /\ ret' = Ret("documents", c.ok, recordCount, BlankData, {},
                           Documents(c.cycle.sent, junk))

NextDocuments ==
    \/ Restart
    \/ Initialize
    \/ \E d \in SensorInputs : SaveData(d)
    \/ \E wifiConnected \in BOOLEAN, firebaseReady \in BOOLEAN, ready \in BOOLEAN :
          UploadDocuments(wifiConnected, firebaseReady, ready)

SpecDocuments == Configured("ESP", MaxRecords) /\ [][NextDocuments]_vars

(***************************************************************************)
(* loop() running for ever with a transport that stays ready and accepts   *)
(* every record handed to it.  The error counter has no reader in the      *)
(* firmware; it is counted up to MaxErrors and stays there, so that the    *)
(* upload section can run any number of times.                             *)
(***************************************************************************)
AllAccepted(sent) == \A k \in 1..Len(sent) : Succeeded(sent[k].outcome)

LoopUploadReady ==
    /\ board = "ESP"
    /\ setupPassed(isInitialized)
    /\ IF uploadTrigger(recordCount, TRUE, TRUE, TRUE)
       THEN \E c \in uploadAllData(TRUE, TRUE, TRUE) :
               /\ AllAccepted(c.cycle.sent)
               /\ errorCount' = Min(errorCount + c.errs, MaxErrors)
               /\ CycleEffect(c)
               /\ ret' = Ret("loop", c.ok, recordCount, BlankData, {},
                             LoopRecord(TRUE, TRUE, TRUE, 1, c.cycle))
       ELSE /\ ret' = Ret("loop", FALSE, recordCount, BlankData, {},
                          LoopRecord(TRUE, TRUE, TRUE, 0, Cycle(<<>>, 0, <<>>)))
            /\ UNCHANGED <<firebase, timeSync, board, maxRecords, eeprom, flash, currentIndex,
                           recordCount, isInitialized, errorCount, writeCounter, hist>>

\* The low bytes of the slots' length prefixes.
PrefixAddrs == {calculateAddress(s) + 1 : s \in Slots}

\* Readings arrive, the device is switched off and on, a byte of a length
\* prefix can change while it is off, and loop() keeps running its upload
\* section.
NextLive ==
    \/ Restart
    \/ Initialize
    \/ \E d \in SensorInputs : SaveData(d)
    \/ \E a \in PrefixAddrs : \E v \in CorruptValues(a, Persisted[a]) : CorruptByte(a, v)
    \/ LoopUploadReady

\* loop() is called again and again, and setup() calls initialize() after
\* every reset.
SpecLive ==
    /\ Configured("ESP", MaxRecords)
    /\ [][NextLive]_vars
    /\ WF_vars(Initialize)
    /\ WF_vars(LoopUploadReady)


(***************************************************************************)
(* Properties.                                                             *)
(***************************************************************************)
InRange(index) == index >= 0 /\ index < recordCount

\* A step of saveData, of retrieveData.
SaveStep == ret'.op = "save"
RetrieveStep == ret'.op = "retrieve"

\* C1: in every reachable state 0 <= recordCount <= maxRecords.
C1_CountWithinCapacity == recordCount >= 0 /\ recordCount <= maxRecords

\* C1 witness: a save succeeded on a store that was already full.
C1_Witness ==
    ret.op = "save" /\ ret.ok /\ recordCount = maxRecords /\ sinceEmpty > maxRecords

\* C2: after more than maxRecords saves on a store that started empty,
\* retrieveData(i) returns the i-th oldest of the last maxRecords readings saved.
C2_RingOverwriteOldestFirst ==
    (/\ ret.op = "retrieve"
     /\ fresh
     /\ fault = -1
     /\ sinceEmpty > maxRecords
     /\ ret.index \in Slots)
        => (ret.ok /\ Stored(ret.data) = Stored(log[ret.index + 1]))

\* C3: after n <= maxRecords saves on a store that started empty, the count is
\* n and retrieveData(i), i < n, returns the (i+1)-th reading saved.
C3_FirstSavesInOrder ==
    (fresh /\ fault = -1 /\ sinceEmpty <= maxRecords)
        => /\ recordCount = sinceEmpty
           /\ Len(log) = sinceEmpty
           /\ (ret.op = "retrieve" /\ ret.index >= 0 /\ ret.index < sinceEmpty)
                 => (ret.ok /\ Stored(ret.data) = Stored(log[ret.index + 1]))

\* C3 witness: the last of maxRecords readings was retrieved from a store that
\* started empty.
C3_Witness ==
    /\ ret.op = "retrieve" /\ ret.ok
    /\ fresh /\ sinceEmpty = maxRecords
    /\ ret.index = maxRecords - 1
    /\ Stored(ret.data) # Stored(log[1])

\* C4: a save on a full store is not rejected for being full, overwrites the
\* slot at writeCursor, which holds the earliest-saved retained record, leaves
\* the other slots unchanged and leaves recordCount at maxRecords.
C4_FullSaveOverwritesOldest ==
    [][(SaveStep /\ isInitialized /\ recordCount = maxRecords /\ fault = -1)
          => /\ (~recordTooLarge(Len(toCSV(ret'.data))) => ret'.ok)
             /\ ret'.ok =>
                  /\ slotOrder[currentIndex] = 1
                  /\ \A s \in Slots \ {currentIndex} :
                        \A i \in 0..(RecordSize - 1) :
                            eeprom'[calculateAddress(s) + i] = eeprom[calculateAddress(s) + i]
                  /\ recordCount' = maxRecords]_vars

\* C5: a successful save writes the 2-byte big-endian length and the payload
\* into the slot at the pre-call writeCursor, zero-fills the rest of the slot,
\* advances writeCursor modulo maxRecords and raises recordCount up to maxRecords.
C5_SaveEffect ==
    [][(SaveStep /\ ret'.ok)
          => LET a == RECORD_START + (currentIndex * RecordSize)
                 csv == toCSV(ret'.data)
             IN /\ eeprom'[a] = Len(csv) \div 256
                /\ eeprom'[a + 1] = Len(csv) % 256
                /\ \A i \in 1..Len(csv) : eeprom'[a + 1 + i] = csv[i]
                /\ \A i \in (Len(csv) + 2)..(RecordSize - 1) : eeprom'[a + i] = 0
                /\ currentIndex' = (IF currentIndex + 1 = maxRecords THEN 0 ELSE currentIndex + 1)
                /\ recordCount' = Min(recordCount + 1, maxRecords)
                /\ Persisted' = eeprom']_vars

\* C5 witness: a successful save wrapped the cursor on a full store, into a
\* slot that held a longer record.
C5_Witness ==
    /\ ret.op = "save" /\ ret.ok
    /\ currentIndex = 0 /\ recordCount = maxRecords /\ sinceEmpty > maxRecords
    /\ Len(toCSV(ret.data)) = RecordSize - 3


\* C6: saveData rejects every record longer than slotSize - 2, accepts length
\* slotSize - 2, and a rejected save changes neither cursor, count nor medium.
C6_TooLargeRejected ==
    [][SaveStep
          => LET n == Len(toCSV(ret'.data))
             IN /\ n > RecordSize - 2 => ~ret'.ok
                /\ (n = RecordSize - 2 /\ isInitialized) => ret'.ok
                /\ ~ret'.ok => /\ currentIndex' = currentIndex
                               /\ recordCount' = recordCount
                               /\ eeprom' = eeprom
                               /\ Persisted' = Persisted]_vars

\* C6 witness: a record of encoded length slotSize - 1 was rejected by an
\* initialized store that holds records.
C6_Witness ==
    /\ ret.op = "save" /\ ~ret.ok
    /\ isInitialized /\ recordCount > 0
    /\ Len(toCSV(ret.data)) = RecordSize - 1

\* C7: retrieveData succeeds only for an index in [0, recordCount); for any
\* other index, negative ones included, it fails without reading the medium.
C7_OutOfRangeRejectedUnread ==
    ret.op = "retrieve"
        => /\ ret.ok => InRange(ret.index)
           /\ ~InRange(ret.index) => (~ret.ok /\ ret.reads = {})

\* The length prefix stored in a slot.
PrefixOf(mem, s) ==
    (256 * mem[RECORD_START + (s * RecordSize)]) + mem[RECORD_START + (s * RecordSize) + 1]

PrefixBad(mem, s) == PrefixOf(mem, s) = 0 \/ PrefixOf(mem, s) > RecordSize - 2

\* C8: retrieveData on a slot whose length prefix is 0 or exceeds slotSize - 2
\* fails without decoding and changes neither cursor, count nor medium; every
\* other index in range still retrieves its record.
C8_CorruptLengthRejected ==
    [][(RetrieveStep /\ isInitialized /\ InRange(ret'.index) /\ PrefixBad(eeprom, ret'.index))
          => /\ ~ret'.ok
             /\ ret'.data = BlankData
             /\ ret'.reads = {calculateAddress(ret'.index), calculateAddress(ret'.index) + 1}
             /\ currentIndex' = currentIndex
             /\ recordCount' = recordCount
             /\ eeprom' = eeprom
             /\ Persisted' = Persisted
             /\ \A j \in Slots \ {ret'.index} :
                   j < recordCount'
                      => LET before == retrieveData(board, eeprom, isInitialized, recordCount,
                                                    BlankData, j)
                             after == retrieveData(board, eeprom', isInitialized', recordCount',
                                                   BlankData, j)
                         IN after.ok /\ after = before]_vars

\* C8 witness: a retrieve failed on the slot whose length prefix was changed,
\* on a full store.
C8_Witness ==
    /\ ret.op = "retrieve" /\ ~ret.ok
    /\ isInitialized /\ recordCount = maxRecords
    /\ InRange(ret.index)
    /\ fault \in {calculateAddress(ret.index), calculateAddress(ret.index) + 1}

HeaderOf(mem) == [i \in 1..HEADER_SIZE |-> mem[i - 1]]

\* Magic, version, cursor 0, count 0, checksum AB xor CD xor 01, reserved.
EmptyHeader == <<171, 205, 1, 0, 0, 0, 0, 103, 0, 0>>

\* C9: right after clearStorage cursor and count are 0 and the persisted
\* header is the valid header of an empty store, which readHeader loads as (0, 0).
C9_ClearCommitsEmptyHeader ==
    ret.op = "clear"
        => /\ currentIndex = 0
           /\ recordCount = 0
           /\ HeaderOf(Persisted) = EmptyHeader
           /\ readHeader(board, Persisted, 1, 1)
                 = [ok |-> TRUE, currentIndex |-> 0, recordCount |-> 0]

\* C9 witness: the store was cleared while saves were pending in the throttle
\* counter.
C9_Witness == ret.op = "clear" /\ writeCounter > 0 /\ slotOrder[0] # 0

\* C10 as claimed: after a change of any one byte of the header region,
\* reserved bytes included, initialize() sets the store up anew (cursor 0,
\* count 0, header rewritten).
C10_AnyHeaderByteDetected ==
    [][(ret'.op = "init" /\ ret'.ok /\ fault \in 0..(HEADER_SIZE - 1))
          => /\ currentIndex' = 0
             /\ recordCount' = 0
             /\ HeaderOf(eeprom') = EmptyHeader]_vars

\* The device is off and the medium holds a header that readHeader accepts.
OffWithValidHeader ==
    ~isInitialized /\ fault = -1 /\ readHeader(board, Persisted, 0, 0).ok

\* C10 amended: a change of one byte among bytes 0..7 (magic, version, cursor,
\* count, checksum) is detected: readHeader refuses the header whatever the new
\* value, and initialize() ends with cursor 0, count 0 and a rewritten header.
C10_CheckedHeaderByteDetected ==
    /\ [](OffWithValidHeader
            => \A a \in 0..7 : \A v \in Byte \ {Persisted[a]} :
                  ~readHeader(board, [Persisted EXCEPT ![a] = v], 0, 0).ok)
    /\ [][(ret'.op = "init" /\ ret'.ok /\ fault \in 0..7)
             => /\ currentIndex' = 0
                /\ recordCount' = 0
                /\ HeaderOf(eeprom') = EmptyHeader
                /\ HeaderOf(Persisted') = EmptyHeader]_vars

\* C10 witness: initialize() ran on a medium that held records and whose
\* cursor or count byte had been changed, and left an empty store.
C10_Witness ==
    /\ ret.op = "init" /\ ret.ok
    /\ ret.index \in 3..6
    /\ recordCount = 0 /\ currentIndex = 0
    /\ \A s \in Slots : slotOrder[s] # 0

\* The three ways a stored header is refused, read off the stored bytes.
BadMagic(mem) == mem[0] # 171 \/ mem[1] # 205
BadVersion(mem) == mem[2] # STORAGE_VERSION
BadChecksum(mem) ==
    mem[7] # Xor8(Xor8(Xor8(Xor8(Xor8(Xor8(mem[0], mem[1]), mem[2]), mem[3]), mem[4]),
                       mem[5]), mem[6])

\* C11: initialize() on a medium whose header has a wrong magic, a wrong
\* version or a wrong checksum ends, in each case, as clearStorage() does:
\* cursor 0, count 0, the valid header of an empty store written and
\* persisted, the record region untouched, and the store ready.
C11_BadHeaderMeansFirstTimeSetup ==
    [][(ret'.op = "init" /\ ret'.ok
            /\ (BadMagic(Persisted) \/ BadVersion(Persisted) \/ BadChecksum(Persisted)))
          => /\ currentIndex' = 0
             /\ recordCount' = 0
             /\ isInitialized'
             /\ HeaderOf(eeprom') = EmptyHeader
             /\ HeaderOf(Persisted') = EmptyHeader
             /\ \A a \in (DOMAIN Persisted) \ (0..(HEADER_SIZE - 1)) :
                   eeprom'[a] = Persisted[a] /\ Persisted'[a] = Persisted[a]]_vars

\* C11 witness: initialize() ran on a medium that held records in every slot
\* and whose version byte had been changed, and left an empty, ready store.
C11_Witness ==
    /\ ret.op = "init" /\ ret.ok
    /\ ret.index = 2
    /\ isInitialized /\ recordCount = 0 /\ currentIndex = 0
    /\ \A s \in Slots : slotOrder[s] # 0

\* The 16-bit cursor and count a header stores.
StoredCursor(mem) == (256 * mem[3]) + mem[4]
StoredCount(mem) == (256 * mem[5]) + mem[6]

\* C12: after initialize() loads a header that passes the magic, version and
\* checksum tests, 0 <= writeCursor < maxRecords and 0 <= recordCount <=
\* maxRecords whatever 16-bit values were stored: a stored value in range is
\* kept, one out of range is replaced by 0.
C12_LoadedValuesClamped ==
    [][(ret'.op = "init" /\ ret'.ok
            /\ ~BadMagic(Persisted) /\ ~BadVersion(Persisted) /\ ~BadChecksum(Persisted))
          => /\ currentIndex' >= 0 /\ currentIndex' < maxRecords
             /\ recordCount' >= 0 /\ recordCount' <= maxRecords
             /\ currentIndex' = (IF StoredCursor(Persisted) < maxRecords
                                 THEN StoredCursor(Persisted) ELSE 0)
             /\ recordCount' = (IF StoredCount(Persisted) <= maxRecords
                                THEN StoredCount(Persisted) ELSE 0)]_vars

\* The size of the medium: the AVR EEPROM, the sector of the ESP8266 emulation.
MediumSize(b) == IF b = "AVR" THEN AvrEepromSize ELSE EspEepromLimit

\* C13: initialize() fails, leaves the store not ready and the medium
\* untouched whenever address(maxRecords - 1) + slotSize exceeds the medium
\* size, on either board.
C13_OversizeRefusedAtInit ==
    [][(ret'.op = "init"
            /\ calculateAddress(maxRecords - 1) + RecordSize > MediumSize(board))
          => /\ ~ret'.ok
             /\ ~isInitialized'
             /\ eeprom' = eeprom
             /\ Persisted' = Persisted]_vars

\* C14: saveData fails whenever address(writeCursor) + slotSize exceeds the
\* medium size, and then writes no byte and leaves cursor and count unchanged.
C14_MediumOverflowRejected ==
    [][(SaveStep /\ calculateAddress(currentIndex) + RecordSize > MediumSize(board))
          => /\ ~ret'.ok
             /\ eeprom' = eeprom
             /\ Persisted' = Persisted
             /\ currentIndex' = currentIndex
             /\ recordCount' = recordCount]_vars

\* C14 witness: an initialized store that holds records refused a record that
\* fits a slot because the slot at the cursor ends beyond the medium.
C14_Witness ==
    /\ ret.op = "save" /\ ~ret.ok
    /\ isInitialized /\ recordCount > 0
    /\ ~recordTooLarge(Len(toCSV(ret.data)))
    /\ calculateAddress(currentIndex) + RecordSize > MediumSize(board)

\* C15: fewer than 10 (HeaderCommitEvery) successful saves are ever
\* unreflected in the persisted header; with none unreflected the persisted
\* header loads as the cursor and count in memory; and after every successful
\* save that wraps the cursor to 0 the persisted header is the one for the
\* cursor and count in memory.
C15_HeaderCommitThrottle ==
    /\ [](unflushed < HeaderCommitEvery)
    /\ []((isInitialized /\ unflushed = 0)
            => readHeader(board, Persisted, 0 - 1, 0 - 1)
                  = [ok |-> TRUE, currentIndex |-> currentIndex, recordCount |-> recordCount])
    /\ [][(SaveStep /\ ret'.ok /\ currentIndex' = 0)
             => /\ unflushed' = 0
                /\ HeaderOf(Persisted') = HeaderBytes(0, recordCount')]_vars

\* C15 witness: a successful save that did not wrap the cursor wrote the
\* header because the counter of saves ran out.
C15_Witness ==
    /\ ret.op = "save" /\ ret.ok
    /\ currentIndex # 0
    /\ unflushed = 0 /\ writeCounter = 0
    /\ HeaderOf(Persisted) = HeaderBytes(currentIndex, recordCount)

\* A power loss on a running store whose persisted header reflects every save.
PowerLossStep == ret'.op = "construct" /\ isInitialized /\ unflushed = 0

\* C16: when power is lost, also between a slot write and the header commit,
\* the header that initialize() then finds is valid and is the last written
\* one, and every record it covers is retrieved with the content it had.
C16_PowerLossKeepsCoveredRecords ==
    [][PowerLossStep
          => LET h == readHeader(board, Persisted', 0 - 1, 0 - 1)
             IN /\ h.ok
                /\ h.currentIndex = currentIndex
                /\ h.recordCount = recordCount
                /\ \A i \in 0..(recordCount - 1) :
                      LET before == retrieveData(board, eeprom, TRUE, recordCount, BlankData, i)
                          after == retrieveData(board, Persisted', TRUE, h.recordCount,
                                                BlankData, i)
                      IN before.ok => (after.ok /\ after.data = before.data)]_vars

\* A step of uploadAllData that passed the readiness tests.
UploadStep == ret'.op = "upload" /\ ret'.ok

\* The records of a cycle that the transport accepted.
Acknowledged(c) == {k \in 1..Len(c.sent) : Succeeded(c.sent[k].outcome)}

\* C17: in a cycle that starts with count() = batchLimit, if batchLimit
\* uploads succeed the store is cleared and CLEAR is sent exactly once; if any
\* upload fails nothing is cleared, no CLEAR is sent and count() is unchanged.
C17_BatchClearCondition ==
    [][(UploadStep /\ recordCount = BatchLimit)
          => LET c == ret'.out
             IN /\ Cardinality(Acknowledged(c)) = BatchLimit
                     => /\ c.clears = 1 /\ c.signals = 1
                        /\ recordCount' = 0 /\ currentIndex' = 0
                        /\ HeaderOf(Persisted') = EmptyHeader
                /\ (\E k \in 1..Len(c.sent) : ~Succeeded(c.sent[k].outcome))
                     => /\ c.clears = 0 /\ c.signals = 0
                        /\ recordCount' = BatchLimit
                        /\ eeprom' = eeprom /\ Persisted' = Persisted]_vars

\* C17 witness: a cycle started with batchLimit records, its last upload
\* failed after the others had succeeded, and the store still holds them.
C17_Witness ==
    /\ ret.op = "upload" /\ ret.ok
    /\ ret.index = BatchLimit
    /\ Len(ret.out.sent) = BatchLimit
    /\ Cardinality(Acknowledged(ret.out)) = BatchLimit - 1
    /\ ~Succeeded(ret.out.sent[BatchLimit].outcome)
    /\ recordCount = BatchLimit

\* C18: every record that the clearStorage of a cycle removes from the store
\* was accepted by the transport in that cycle.
C18_ClearRemovesOnlyUploaded ==
    [][(UploadStep /\ ret'.out.clears > 0)
          => \A i \in 0..(recordCount - 1) :
                retrieveData(board, eeprom, isInitialized, recordCount, BlankData, i).ok
                   => \E k \in Acknowledged(ret'.out) : ret'.out.sent[k].index = i]_vars

\* C19: a cycle that passed the readiness tests clears the store exactly when
\* the number of accepted uploads equals batchLimit or the record count read
\* at its start; otherwise the store is left as it was.
C19_ClearIffBatchOrAll ==
    [][UploadStep
          => LET c == ret'.out
                 n == Cardinality(Acknowledged(c))
             IN /\ c.clears \in {0, 1}
                /\ (c.clears = 1) <=> (n = BatchLimit \/ n = recordCount)
                /\ c.clears = 1 => (recordCount' = 0 /\ currentIndex' = 0)
                /\ c.clears = 0 => /\ recordCount' = recordCount
                                   /\ currentIndex' = currentIndex
                                   /\ eeprom' = eeprom
                                   /\ Persisted' = Persisted]_vars

\* C19 witness: a cycle cleared a store that held fewer records than
\* batchLimit after uploading all of them.
C19_Witness ==
    /\ ret.op = "upload" /\ ret.ok
    /\ ret.index > 0 /\ ret.index < BatchLimit
    /\ Cardinality(Acknowledged(ret.out)) = ret.index
    /\ ret.out.clears = 1
    /\ recordCount = 0

\* C20: within a cycle no record is handed to the transport after an upload
\* has failed, whatever the failure.
C20_StopOnFirstFailure ==
    ret.op = "upload"
        => \A j \in 1..Len(ret.out.sent) : \A k \in 1..Len(ret.out.sent) :
              j < k => Succeeded(ret.out.sent[j].outcome)

\* C21: the k-th record a cycle hands to the transport is the k-th oldest
\* retained record, and a cycle that no transport error stops hands over
\* min(batchLimit, count()) records, also after the ring has wrapped.
C21_UploadsOldestFirst ==
    [][(UploadStep /\ fresh /\ fault = -1)
          => LET sent == ret'.out.sent
             IN /\ \A k \in 1..Len(sent) :
                      /\ k <= Len(log)
                      /\ sent[k].timestamp = log[k].timestamp
                /\ (\A k \in 1..Len(sent) : sent[k].outcome # "error")
                      => Len(sent) = Min(BatchLimit, recordCount)]_vars

\* The clear condition was not met by a cycle record c that started with n
\* records.
NotCleared(c, n) ==
    Cardinality(Acknowledged(c)) # BatchLimit /\ Cardinality(Acknowledged(c)) # n

LoopStep == ret'.op = "loop"

StoreUnchanged ==
    /\ currentIndex' = currentIndex
    /\ recordCount' = recordCount
    /\ eeprom' = eeprom
    /\ Persisted' = Persisted

\* C23: in a loop iteration where count() is below the threshold or WiFi is
\* down or Firebase is not initialized or not ready, uploadAllData() is not
\* called: no record reaches the transport, the store is not cleared, no
\* CLEAR is sent and nothing of the store changes.
C23_NoUploadWithoutTrigger ==
    [][(LoopStep /\ (\/ recordCount < UploadThreshold
                     \/ ~ret'.out.wifiConnected
                     \/ ~ret'.out.firebaseReady
                     \/ ~ret'.out.ready))
          => /\ ret'.out.calls = 0
             /\ ret'.out.sent = <<>>
             /\ ret'.out.events = <<>>
             /\ StoreUnchanged
             /\ errorCount' = errorCount]_vars

\* C23 witness: the store held enough records and only Firebase.ready() was
\* false; nothing was uploaded and the records are still there.
C23_Witness ==
    /\ ret.op = "loop"
    /\ ret.index >= UploadThreshold
    /\ ret.out.wifiConnected /\ ret.out.firebaseReady /\ ~ret.out.ready
    /\ ret.out.calls = 0
    /\ recordCount = ret.index

\* C24: a loop iteration whose cycle clears the store calls clearStorage()
\* once and sends CLEAR once, directly after it; an iteration that does not
\* clear the store sends no CLEAR.
C24_ClearSignalOncePerClear ==
    [][LoopStep
          => IF ret'.out.clears > 0
             THEN /\ ret'.out.events = <<"clearStorage", "CLEAR">>
                  /\ recordCount' = 0 /\ currentIndex' = 0
                  /\ HeaderOf(Persisted') = EmptyHeader
             ELSE /\ ret'.out.signals = 0
                  /\ StoreUnchanged]_vars

\* C24 witness: a triggered cycle cleared the store and sent CLEAR.
C24_Witness ==
    /\ ret.op = "loop" /\ ret.ok
    /\ ret.index >= UploadThreshold
    /\ ret.out.events = <<"clearStorage", "CLEAR">>
    /\ recordCount = 0

\* A line the producer boundary discards, by its length as received.
DiscardedAsReceived(line, parses) ==
    Len(line) > LineLimit \/ line = <<>> \/ Head(line) # Brace \/ ~parses

\* A line the receive section discards: the length test, the emptiness test
\* and the test of the first character are made on the trimmed line.
Discarded(line, parses) ==
    \/ Len(trim(line)) > LineLimit
    \/ trim(line) = <<>>
    \/ Head(trim(line)) # Brace
    \/ ~parses

\* saveData was not called and nothing of the store changed.
LineDropped ==
    /\ ret'.out.calls = 0
    /\ currentIndex' = currentIndex
    /\ recordCount' = recordCount
    /\ eeprom' = eeprom
    /\ Persisted' = Persisted
    /\ errorCount' = errorCount

\* C25 as claimed: a line that is longer than 300 (LineLimit) bytes, is empty,
\* does not start with '{' or fails JSON parsing is discarded.
C25_BadLineDiscarded ==
    [][(ret'.op = "line" /\ DiscardedAsReceived(ret'.out.line, ret'.out.parses))
          => LineDropped]_vars

\* C25 amended: a line whose text without leading and trailing white space
\* is longer than 300 (LineLimit) bytes, is empty, does not start with '{' or
\* fails JSON parsing is discarded: saveData is not called and cursor, count
\* and medium are unchanged; every other line reaches saveData.
C25_BadTrimmedLineDiscarded ==
    [][ret'.op = "line"
          => IF Discarded(ret'.out.line, ret'.out.parses)
             THEN LineDropped
             ELSE ret'.out.calls = 1]_vars

\* C25 witness: a line longer than the limit, which deserializeJson would
\* accept, was discarded by a store that holds records.
C25_Witness ==
    /\ ret.op = "line"
    /\ Len(trim(ret.out.line)) > LineLimit
    /\ ret.out.parses
    /\ ret.out.calls = 0
    /\ recordCount > 0

\* The reasons for which retrieveData calls handleError.
RetrieveRefused(index) ==
    ~isInitialized \/ index >= recordCount \/ (index >= 0 /\ PrefixBad(eeprom, index))

\* C26: a saveData or retrieveData call that fails because the store is not
\* initialized, the record is too large, the slot lies beyond the medium,
\* the index is out of range or the stored length is invalid returns false
\* and adds exactly 1 to errorCount; a call that succeeds leaves errorCount
\* unchanged; and after such a failure on the initialized store a saveData
\* of any record that fits a slot succeeds.
C26_ErrorsCountedStoreUsable ==
    /\ [][SaveStep => /\ ret'.ok = ~SaveFails(ret'.data)
                      /\ errorCount' = errorCount + (IF ret'.ok THEN 0 ELSE 1)]_vars
    /\ [][RetrieveStep
             => /\ RetrieveRefused(ret'.index) => ~ret'.ok /\ errorCount' = errorCount + 1
                /\ ret'.ok => errorCount' = errorCount]_vars
    /\ []((ret.op \in {"save", "retrieve"} /\ ~ret.ok /\ isInitialized)
            => \A d \in SensorInputs :
                  ~recordTooLarge(Len(toCSV(d))) => ~SaveFails(d))

\* C27: after initialize() returned false the store is not ready, every
\* saveData and retrieveData fails without an access to the medium, and the
\* firmware runs no receive or upload section of loop().
C27_FailedInitIsFatal ==
    /\ []((ret.op = "init" /\ ~ret.ok)
            => /\ ~isInitialized
               /\ \A d \in SensorInputs : SaveFails(d)
               /\ \A index \in RetrieveIndices :
                     LET r == retrieveData(board, eeprom, isInitialized, recordCount,
                                           BlankData, index)
                     IN ~r.ok /\ r.reads = {})
    /\ [][(ret.op = "init" /\ ~ret.ok)
             => (~isInitialized' /\ eeprom' = eeprom /\ Persisted' = Persisted)]_vars
    /\ [][ret'.op \in {"line", "loop"} => isInitialized]_vars

\* C27 witness: initialize() returned false for the second time on a store
\* configured for more slots than it accepts.
C27_Witness ==
    /\ ret.op = "init" /\ ~ret.ok
    /\ requiredSize > EspEepromLimit
    /\ ~isInitialized

\* The indices of the range of exportToCSV(startIndex, count) whose record
\* retrieves, each read into a fresh SensorData.
ExportRange(startIndex, count) ==
    LET n == IF count = 0 - 1 THEN recordCount ELSE count
    IN {i \in startIndex..(Min(startIndex + n, recordCount) - 1) :
           retrieveData(board, eeprom, isInitialized, recordCount, BlankData, i).ok}

\* The k-th smallest index of a set of indices.
NthIndex(S, k) == CHOOSE i \in S : Cardinality({j \in S : j < i}) = k - 1

\* C28: exportToCSV(start, n) emits, in index order, exactly the records at
\* the indices of [start, min(start + n, recordCount)) that retrieve, one
\* line each, whatever the slots between them hold, and leaves the cursor,
\* the count and the medium unchanged.
C28_ExportBestEffort ==
    [][ret'.op = "export"
          => /\ ret'.ok
             /\ StoreUnchanged
             /\ \A S \in {ExportRange(ret'.index, ret'.out.count)} :
                   /\ Len(ret'.out.output) = Cardinality(S)
                   /\ \A k \in 1..Cardinality(S) :
                         ret'.out.output[k]
                            = toCSV(retrieveData(board, eeprom, isInitialized, recordCount,
                                                 BlankData, NthIndex(S, k)).data)]_vars

\* C28 witness: the whole of a full store was exported; the record at index 0
\* had a valid length and did not decode, and the record after it was emitted.
C28_Witness ==
    /\ ret.op = "export" /\ ret.index = 0 /\ ret.out.count = 0 - 1
    /\ recordCount = maxRecords
    /\ LET r0 == retrieveData(board, eeprom, isInitialized, recordCount, BlankData, 0)
           r1 == retrieveData(board, eeprom, isInitialized, recordCount, BlankData, 1)
       IN /\ ~r0.ok /\ r0.err = 0
          /\ r1.ok
          /\ ret.out.output = <<toCSV(r1.data)>>

\* C29: in every state getFreeSpace() is maxRecords - recordCount and not
\* negative, and isFull() holds exactly when recordCount = maxRecords; a
\* save that succeeds while isFull() is false adds one record and leaves
\* every record retained before it retrievable with the same content.
C29_FreeSpaceAndNoEviction ==
    /\ [](/\ getFreeSpace(recordCount) = maxRecords - recordCount
          /\ getFreeSpace(recordCount) >= 0
          /\ isFull(recordCount) <=> (recordCount = maxRecords))
    /\ [][(SaveStep /\ ret'.ok /\ ~isFull(recordCount))
             => /\ recordCount' = recordCount + 1
                /\ getFreeSpace(recordCount') = getFreeSpace(recordCount) - 1
                /\ \A i \in 0..(recordCount - 1) :
                      \A before \in {retrieveData(board, eeprom, isInitialized, recordCount,
                                                  BlankData, i)} :
                         /\ before.ok
                         /\ retrieveData(board, eeprom', isInitialized', recordCount',
                                         BlankData, i) = before]_vars

\* C29 witness: a save succeeded on a store that held a record and was not
\* full, and filled it.
C29_Witness ==
    /\ ret.op = "save" /\ ret.ok
    /\ ret.index >= 1
    /\ recordCount = ret.index + 1
    /\ isFull(recordCount) /\ getFreeSpace(recordCount) = 0

\* C30: fromCSV applied to toCSV(R) succeeds and yields the timestamp, the
\* SENSOR_COUNT values (in hundredths) and the status of R, whatever the
\* object decoded into held before.
C30_RoundTrip ==
    ret.op = "fromCSV"
        => /\ ret.ok
           /\ ret.data.timestamp = ret.out.record.timestamp
           /\ \A i \in 1..SENSOR_COUNT : ret.data.values[i] = ret.out.record.values[i]
           /\ ret.data.status = ret.out.record.status

\* C30 witness: a record with the largest timestamp, a negative value below
\* one, a value with decimals and status 255 was decoded into an object that
\* held another reading.
C30_Witness ==
    /\ ret.op = "fromCSV"
    /\ ret.out.record.timestamp = 2147483647
    /\ ret.out.record.values = <<0 - 5, 2550>>
    /\ ret.out.record.status = 255
    /\ ret.data.relay2 = 1
    /\ ret.out.csv = Digits(2147483647) \o <<Comma, Minus, Zero, Dot, Zero, Zero + 5,
                                            Comma, Zero + 2, Zero + 5, Dot, Zero + 5, Zero,
                                            Comma, Zero + 2, Zero + 5, Zero + 5>>

\* The comma-delimited fields of a text.
Fields(csv) == 1 + Cardinality({k \in 1..Len(csv) : csv[k] = Comma})

\* C31: fromCSV returns false for every text with fewer fields than a
\* timestamp, SENSOR_COUNT values and a status, and returns true or false,
\* with a SensorData object whose fields are in their types' ranges, on
\* every text.
C31_FewFieldsRejected ==
    ret.op = "parse"
        => /\ ret.ok \in BOOLEAN
           /\ Fields(ret.out) < SENSOR_COUNT + 2 => ~ret.ok
           /\ ret.data.timestamp >= 0
           /\ ret.data.status \in 0..255
           /\ DOMAIN ret.data.values = 1..SENSOR_COUNT

\* C31 witness: a text of three fields, one fewer than expected, was refused
\* at the last sensor value.
C31_Witness ==
    /\ ret.op = "parse" /\ ~ret.ok
    /\ ret.out = <<Zero + 7, Comma, Zero + 7, Comma, Zero + 7>>
    /\ ret.data.timestamp = 7 /\ ret.data.values[1] = 700

FirebaseSaveStep == ret'.op = "fbSave"
FirebaseSyncStep == ret'.op = "fbSync"

\* The buffer holds the record at the position the call found free, or the
\* call transmitted it as the last record of the batch.
Queued(data, position, buffer, cnt, sent) ==
    /\ position < FirebaseBatchSize
    /\ \/ position < cnt /\ buffer[position] = data
       \/ Len(sent) = position + 1 /\ sent[position + 1] = Stored(data)

\* C32: a FirebaseStorage saveData that returns true has placed the given
\* record in the batch buffer, where it still is or from where this call
\* transmitted it; batchCount stays within 0..BATCH_SIZE.
C32_TrueMeansQueued ==
    /\ [](batchCount \in 0..FirebaseBatchSize)
    /\ [][(FirebaseSaveStep /\ ret'.ok)
             => Queued(ret'.data, batchCount, batchBuffer', batchCount', ret'.out.sent)]_vars

\* C33: syncBatch() sets batchCount to 0 only when it transmitted the batch,
\* all of it and in buffer order; when the connection check or the send
\* fails it returns false and leaves batchCount and the buffer as they were.
C33_SyncClearsOnlyOnSuccess ==
    [][FirebaseSyncStep
          => /\ batchBuffer' = batchBuffer
             /\ IF batchCount > 0 /\ ret'.out.connected /\ ret'.out.sendOk
                THEN /\ ret'.ok /\ batchCount' = 0
                     /\ ret'.out.sent = [i \in 1..batchCount |-> Stored(batchBuffer[i - 1])]
                ELSE /\ batchCount' = batchCount
                     /\ ret'.out.sent = <<>>
                     /\ ret'.ok = (batchCount = 0)]_vars

\* C33 witness: a sync of a buffer holding a record failed in the send and
\* left the record buffered.
C33_Witness ==
    /\ ret.op = "fbSync" /\ ~ret.ok
    /\ ret.out.connected /\ ~ret.out.sendOk
    /\ batchCount >= 1
    /\ batchBuffer[0] # BlankData

TimeSyncStep == ret'.op \in {"timeBegin", "timeSync"}

\* The bytes at the addresses TimeSync uses.
TimeBytes(mem) == [i \in 1..9 |-> mem[i - 1]]

\* C34: a TimeSync call changes no byte of the store's header or slots, in
\* the buffer or in flash, so the header of an initialized store stays
\* valid; and no LocalStorage call changes the time and flag that
\* saveTimeToEEPROM() left in flash.
C34_TimeSyncOutsideStore ==
    /\ [][TimeSyncStep
             => \A a \in 0..(requiredSize - 1) :
                   eeprom'[a] = eeprom[a] /\ flash'[a] = flash[a]]_vars
    /\ [](isInitialized => readHeader(board, flash, 0, 0).ok)
    /\ [][(~TimeSyncStep /\ timeSaved # <<>> /\ TimeBytes(flash) = timeSaved)
             => TimeBytes(flash') = timeSaved]_vars

\* C35: with a transport that stays ready and accepts every record, a store
\* holding at least UploadThreshold records is eventually cleared by the
\* upload section, whatever its slots hold: its count returns to 0 (as it
\* also does in the new object after a reset).
C35_UploadEventuallyClears ==
    (isInitialized /\ recordCount >= UploadThreshold) ~> (recordCount = 0)

\* C36: every document handed to the transport carries, in each of its seven
\* fields, the value of the reading that was given to saveData for that
\* record.  Stated where the slot's reading is known: no restart and no wrap
\* since the store was empty, so slot i holds the i-th reading of log.
C36_UploadedFieldsAsSaved ==
    [][(ret'.op = "documents" /\ fresh /\ sinceEmpty <= maxRecords /\ sinceEmpty = recordCount)
          => \A k \in 1..Len(ret'.out) :
                \E i \in 1..Len(log) :
                   /\ log[i].timestamp = ret'.out[k].timestamp
                   /\ ret'.out[k] = documentOf(log[i])]_vars

\* C37: on a medium that only the store has written, an initialized store
\* that is not full has its write cursor equal to its count, and a full one
\* has the earliest-saved retained record in the slot at the write cursor.
C37_CursorAtOldest ==
    (isInitialized /\ fault = -1)
        => /\ (recordCount < maxRecords => currentIndex = recordCount)
           /\ (recordCount = maxRecords => slotOrder[currentIndex] = 1)

\* The addresses of slot c in the layout: header, then slots of RecordSize.
SlotRange(c) == (HEADER_SIZE + c * RecordSize)..(HEADER_SIZE + (c + 1) * RecordSize - 1)

C39_LegacySlotConfinement ==
    [][(ret'.op = "legacySave" /\ ret'.ok)
          => /\ \A a \in DOMAIN eeprom :
                   eeprom'[a] # eeprom[a]
                      => (a < HEADER_SIZE \/ a \in SlotRange(ret'.index))
             /\ Len(toCSV(ret'.data)) + 1 <= RecordSize
             /\ ret'.index >= 0 /\ ret'.index < maxRecords]_vars

\* The XOR of the first seven bytes of the medium.
FoldOfStored(mem) ==
    Xor8(Xor8(Xor8(Xor8(Xor8(Xor8(mem[0], mem[1]), mem[2]), mem[3]), mem[4]), mem[5]), mem[6])

\* C40: readHeader right after writeHeader returns true and restores the
\* cursor and the count that were written; the header on the medium has the
\* magic bytes, the version, cursor and count high byte first, and at
\* address 7 the XOR of the seven bytes before it.
C40_HeaderRoundTrip ==
    /\ [](ret.op = "readHeader"
            => /\ ret.ok
               /\ currentIndex = ret.out[1]
               /\ recordCount = ret.out[2])
    /\ [](ret.op \in {"writeHeader", "readHeader"}
            => /\ eeprom[0] = 171 /\ eeprom[1] = 205 /\ eeprom[2] = STORAGE_VERSION
               /\ 256 * eeprom[3] + eeprom[4] = ret.out[1]
               /\ 256 * eeprom[5] + eeprom[6] = ret.out[2]
               /\ eeprom[7] = FoldOfStored(eeprom))

\* C40 witness: a cursor and a count with non-zero high bytes came back.
C40_Witness ==
    /\ ret.op = "readHeader" /\ ret.ok
    /\ ret.out[1] >= 256 /\ ret.out[2] = 32767
    /\ currentIndex = ret.out[1] /\ recordCount = ret.out[2]

====
